---- MODULE Spec2Model ----
(***************************************************************************)
(* TermTrainer (src/termtrainer.py): the progress store (ProgressTracker)  *)
(* and the three interactive practice loops of TermTrainer.                *)
(*                                                                         *)
(* Strings are sequences of one-character strings, so that strip, split,   *)
(* join and lower are computed character by character.  A Python dict that *)
(* is iterated (wrong_answers) is a sequence of entries in insertion       *)
(* order; the tally dicts, which are only looked up by key, are functions. *)
(* Achievement identifiers are the English names of the spec's table for   *)
(* the source's string literals, in the same order.                        *)
(***************************************************************************)
EXTENDS Integers, Sequences, FiniteSets, TLC

VARIABLES
    data,        \* ProgressTracker.data, the in-memory progress state
    disk,        \* the file progress.json: [exists, valid, content]
    now,         \* the last reading of the wall clock by datetime.now()
    pc,          \* where the process is blocked: which input() it waits on
    exercises,   \* the run's exercise list (exercises / wrong_exercises)
    question_num,\* 1-based index of the exercise being presented
    session_total,
    session_correct,
    removed_count,
    user_input,  \* the stripped line last read in a practice loop
    outcome,     \* which branch of the loop handled that line
    notices,     \* the unlock notifications printed so far, in order
    report,      \* the figures of the last session-end report printed
    ghost,       \* history of record_attempt calls since the default state
    disk_ghost,  \* the history as it was at the last successful save
    run_ghost    \* record_attempt calls made by the practice run so far

vars == <<data, disk, now, pc, exercises, question_num, session_total,
          session_correct, removed_count, user_input, outcome, notices,
          report, ghost, disk_ghost, run_ghost>>

session_vars == <<exercises, question_num, session_total, session_correct,
                  removed_count, user_input, outcome, report, run_ghost>>

----------------------------------------------------------------------------
(* Bounds of the model.                                                    *)

\* Most record_attempt calls made through the practice loops (Spec).
MaxAttempts == 3
\* Most clock readings, that is record_attempt and record_wrong_answer
\* calls, made directly on the store (SpecStore).
MaxClock == 4
\* The smaller of the two sample sizes random_practice is called with.
SmallCount == 2
\* Most words in a typed line (SpecPrompt).
MaxTokens == 2

\* Calls of record_attempt in a drill, and how many of them may be misses.
MaxDrill == 101
MaxMisses == 2

\* random_practice(self, count: int = 10)
DefaultCount == 10

----------------------------------------------------------------------------
(* Strings.                                                                *)

Whitespace == {" ", "\t"}

UpperCase == <<"A","B","C","D","E","F","G","H","I","J","K","L","M",
               "N","O","P","Q","R","S","T","U","V","W","X","Y","Z">>
LowerCase == <<"a","b","c","d","e","f","g","h","i","j","k","l","m",
               "n","o","p","q","r","s","t","u","v","w","x","y","z">>

\* str.lower() on one character
LowerChar(c) ==
    IF \E i \in 1..Len(UpperCase) : UpperCase[i] = c
    THEN LowerCase[CHOOSE i \in 1..Len(UpperCase) : UpperCase[i] = c]
    ELSE c

\* str.lower()
lower(s) == [i \in 1..Len(s) |-> LowerChar(s[i])]

RECURSIVE lstrip(_)
lstrip(s) ==
    IF s # <<>> /\ Head(s) \in Whitespace THEN lstrip(Tail(s)) ELSE s

RECURSIVE rstrip(_)
rstrip(s) ==
    IF s # <<>> /\ s[Len(s)] \in Whitespace
    THEN rstrip(SubSeq(s, 1, Len(s) - 1))
    ELSE s

\* str.strip()
strip(s) == rstrip(lstrip(s))

\* str.split() without a separator: the maximal runs of non-whitespace.
\* cur is the word being read, words the words already finished.
RECURSIVE splitFrom(_, _, _)
splitFrom(s, cur, words) ==
    IF s = <<>>
    THEN IF cur = <<>> THEN words ELSE Append(words, cur)
    ELSE IF Head(s) \in Whitespace
         THEN splitFrom(Tail(s), <<>>,
                        IF cur = <<>> THEN words ELSE Append(words, cur))
         ELSE splitFrom(Tail(s), Append(cur, Head(s)), words)

split(s) == splitFrom(s, <<>>, <<>>)

\* sep.join(parts)
RECURSIVE join(_, _)
join(sep, parts) ==
    IF parts = <<>> THEN <<>>
    ELSE IF Len(parts) = 1 THEN parts[1]
    ELSE parts[1] \o sep \o join(sep, Tail(parts))

\* normalize_answer without the split and join: only the ends are trimmed.
normalize_answer_strip_only(answer) == strip(answer)

\* TermTrainer.normalize_answer
normalize_answer(answer) == join(<<" ">>, split(strip(answer)))

\* check_answer comparing with each accepted answer as it is stored.
check_answer_stored_as_is(user_answer, correct_answers) ==
    \E i \in 1..Len(correct_answers) :
        correct_answers[i] = normalize_answer(user_answer)

\* TermTrainer.check_answer
check_answer(user_answer, correct_answers) ==
    \E i \in 1..Len(correct_answers) :
        normalize_answer(correct_answers[i]) = normalize_answer(user_answer)

----------------------------------------------------------------------------
(* The exercise corpus: a sample of COMMANDS_DB with two categories, two   *)
(* commands and three exercises.  Questions are abbreviated.               *)

COMMANDS_DB == <<
    [key |-> <<"f","o">>,
     commands |-> <<
        [command |-> <<"l","s">>,
         examples |-> << <<"l","s">>, <<"l","s"," ","-","l","a">>,
                         <<"l","s"," ","-","l","h">> >>,
         exercises |-> <<
            [question |-> <<"q","1">>,
             answers |-> << <<"l","s"," ","-","a">>, <<"l","s"," ","-","A">> >>],
            [question |-> <<"q","2">>,
             answers |-> << <<"l","s"," ","-","l","h">>,
                            <<"l","s"," ","-","h","l">> >>] >>] >>],
    [key |-> <<"d","o">>,
     commands |-> <<
        [command |-> <<"c","d">>,
         examples |-> << <<"c","d"," ","~">>, <<"c","d"," ",".",".">> >>,
         exercises |-> <<
            [question |-> <<"q","3">>,
             answers |-> << <<"c","d"," ","~">>, <<"c","d">> >>] >>] >>] >>

CategoryKeys == {COMMANDS_DB[i].key : i \in 1..Len(COMMANDS_DB)}

Category(category_key) ==
    COMMANDS_DB[CHOOSE i \in 1..Len(COMMANDS_DB) : COMMANDS_DB[i].key = category_key]

\* The lines a user types at an answer prompt, before input() is stripped.
Lines == {
    <<"q","u","i","t">>,
    <<" ","S","k","I","p">>,
    <<"h","i","n","t","\t">>,
    <<" ","\t">>,
    <<"l","s"," "," ","-","a">>,
    <<"l","s"," ","-","h","l">>,
    <<"c","d">> }

\* The lines a user types at the "confirm clearing? (y/n)" prompt.
Confirms == { <<"Y", " ">>, <<"n">>, <<>> }

\* The answer recorded for a skipped exercise: the literal '(跳过)'.
SkippedAnswer == <<"(","s","k","i","p",")">>

----------------------------------------------------------------------------
(* ProgressTracker.                                                        *)

None == <<>>

\* datetime.now(): a reading later than the last one
Later(t) == t + 1

\* datetime.now().isoformat() at clock reading t
isoformat(t) == <<t>>

\* The dict _load_progress returns when there is no readable file.
DefaultData ==
    [total_exercises |-> 0,
     correct_answers |-> 0,
     streak |-> 0,
     best_streak |-> 0,
     categories_completed |-> <<>>,
     commands_practiced |-> <<>>,
     last_practice |-> None,
     achievements |-> <<>>,
     wrong_answers |-> <<>>]

\* _load_progress without the try / except around the read.
_load_progress_reads_damaged(file) ==
    IF file.exists THEN file.content ELSE DefaultData

\* ProgressTracker._load_progress
_load_progress(file) ==
    IF file.exists /\ file.valid THEN file.content ELSE DefaultData

\* ProgressTracker.save: the file after a completed write of d
save(d) == [exists |-> TRUE, valid |-> TRUE, content |-> d]

\* ProgressTracker._ensure_wrong_answers
_ensure_wrong_answers(d) ==
    IF "wrong_answers" \in DOMAIN d THEN d
    ELSE d @@ ("wrong_answers" :> <<>>)

\* The key without the question: f"{category}::{command}".
WrongKey_without_question(category, command, question) ==
    category \o <<":", ":">> \o command

\* f"{category}::{command}::{question}"
WrongKey(category, command, question) ==
    category \o <<":", ":">> \o command \o <<":", ":">> \o question

HasKey(wrong, key) == \E i \in 1..Len(wrong) : wrong[i].key = key

IndexOf(wrong, key) == CHOOSE i \in 1..Len(wrong) : wrong[i].key = key

\* record_wrong_answer with the last_user_answer assignment of the
\* key-present branch left out.
record_wrong_answer_keeps_answer(d, category, command, question, answers, user_answer, t) ==
    LET e == _ensure_wrong_answers(d)
        wrong == e.wrong_answers
        key == WrongKey(category, command, question)
        entry == [key |-> key, category |-> category, command |-> command,
                  question |-> question, answers |-> answers, wrong_count |-> 1,
                  last_wrong |-> isoformat(t), last_user_answer |-> user_answer]
    IN  IF HasKey(wrong, key)
        THEN [e EXCEPT !.wrong_answers[IndexOf(wrong, key)] =
                 [@ EXCEPT !.wrong_count = @ + 1, !.last_wrong = isoformat(t)]]
        ELSE [e EXCEPT !.wrong_answers = Append(wrong, entry)]

\* record_wrong_answer with the key-absent branch assigning a new dict that
\* holds only the new entry.
record_wrong_answer_replaces(d, category, command, question, answers, user_answer, t) ==
    LET e == _ensure_wrong_answers(d)
        wrong == e.wrong_answers
        key == WrongKey(category, command, question)
        entry == [key |-> key, category |-> category, command |-> command,
                  question |-> question, answers |-> answers, wrong_count |-> 1,
                  last_wrong |-> isoformat(t), last_user_answer |-> user_answer]
    IN  IF HasKey(wrong, key)
        THEN [e EXCEPT !.wrong_answers[IndexOf(wrong, key)] =
                 [@ EXCEPT !.wrong_count = @ + 1,
                           !.last_wrong = isoformat(t),
                           !.last_user_answer = user_answer]]
        ELSE [e EXCEPT !.wrong_answers = <<entry>>]

\* record_wrong_answer without the `if key in ...` test: the entry is
\* assigned afresh on every miss.
record_wrong_answer_assigns_afresh(d, category, command, question, answers, user_answer, t) ==
    LET e == _ensure_wrong_answers(d)
        wrong == e.wrong_answers
        key == WrongKey(category, command, question)
        entry == [key |-> key, category |-> category, command |-> command,
                  question |-> question, answers |-> answers, wrong_count |-> 1,
                  last_wrong |-> isoformat(t), last_user_answer |-> user_answer]
    IN  IF HasKey(wrong, key)
        THEN [e EXCEPT !.wrong_answers[IndexOf(wrong, key)] = entry]
        ELSE [e EXCEPT !.wrong_answers = Append(wrong, entry)]

\* ProgressTracker.record_wrong_answer at clock reading t
record_wrong_answer(d, category, command, question, answers, user_answer, t) ==
    LET e == _ensure_wrong_answers(d)
        wrong == e.wrong_answers
        key == WrongKey(category, command, question)
    IN  IF HasKey(wrong, key)
        THEN [e EXCEPT !.wrong_answers[IndexOf(wrong, key)] =
                 [@ EXCEPT !.wrong_count = @ + 1,
                           !.last_wrong = isoformat(t),
                           !.last_user_answer = user_answer]]
        ELSE [e EXCEPT !.wrong_answers = Append(wrong,
                 [key |-> key,
                  category |-> category,
                  command |-> command,
                  question |-> question,
                  answers |-> answers,
                  wrong_count |-> 1,
                  last_wrong |-> isoformat(t),
                  last_user_answer |-> user_answer])]

\* del self.data["wrong_answers"][key]
DelKey(wrong, key) ==
    LET i == IndexOf(wrong, key)
    IN  SubSeq(wrong, 1, i - 1) \o SubSeq(wrong, i + 1, Len(wrong))

\* remove_wrong_answer with the del statement left out.
remove_wrong_answer_keeps(d, key) == _ensure_wrong_answers(d)

\* ProgressTracker.remove_wrong_answer
remove_wrong_answer(d, key) ==
    LET e == _ensure_wrong_answers(d)
    IN  IF HasKey(e.wrong_answers, key)
        THEN [e EXCEPT !.wrong_answers = DelKey(@, key)]
        ELSE e

\* list.sort(key=wrong_count, reverse=True): stable, so equal counts keep
\* their order.  InsertDesc puts x after every element that is not smaller.
RECURSIVE InsertDesc(_, _)
InsertDesc(sorted, x) ==
    IF sorted = <<>> THEN <<x>>
    ELSE IF Head(sorted).wrong_count >= x.wrong_count
         THEN <<Head(sorted)>> \o InsertDesc(Tail(sorted), x)
         ELSE <<x>> \o sorted

RECURSIVE SortDesc(_)
SortDesc(s) ==
    IF s = <<>> THEN <<>>
    ELSE InsertDesc(SortDesc(SubSeq(s, 1, Len(s) - 1)), s[Len(s)])

\* get_wrong_exercises without reverse=True: smallest wrong_count first.
get_wrong_exercises_ascending(d) ==
    LET sorted == SortDesc(_ensure_wrong_answers(d).wrong_answers)
    IN  [i \in 1..Len(sorted) |-> sorted[Len(sorted) + 1 - i]]

\* get_wrong_exercises sorting by ascending count and then reversing the
\* list (sort(); reverse()), which turns round the entries of equal count.
get_wrong_exercises_sorted_then_reversed(d) ==
    LET wrong == _ensure_wrong_answers(d).wrong_answers
    IN  SortDesc([i \in 1..Len(wrong) |-> wrong[Len(wrong) + 1 - i]])

\* ProgressTracker.get_wrong_exercises: the sorted list (each element is
\* {"key": key, **entry}, which is the entry as stored here)
get_wrong_exercises(d) == SortDesc(_ensure_wrong_answers(d).wrong_answers)

Contains(seq, x) == \E i \in 1..Len(seq) : seq[i] = x

Max(a, b) == IF a >= b THEN a ELSE b

\* The thresholds of _check_achievements.
BeginnerTotal == 10
PracticeExpertTotal == 50
TerminalMasterTotal == 100
StreakRookie == 5
StreakExpert == 10
StreakMaster == 20

\* The list built by _check_achievements with one thing changed; `how`
\* names the change.
NewAchievementsWith(how, d) ==
    LET held == d.achievements
        pick(cond, name) == IF cond /\ ~Contains(held, name) THEN <<name>> ELSE <<>>
        reached(x, threshold) ==
            IF how = "compared with >" THEN x > threshold ELSE x >= threshold
        totals == pick(reached(d.total_exercises, BeginnerTotal), "beginner")
                  \o pick(reached(d.total_exercises, PracticeExpertTotal),
                          "practice-expert")
                  \o pick(reached(d.total_exercises, TerminalMasterTotal),
                          "terminal-master")
        streaks == pick(reached(d.streak, StreakRookie), "streak-rookie")
                   \o pick(reached(d.streak, StreakExpert), "streak-expert")
                   \o pick(reached(d.best_streak,
                                   IF how = "streak-master at the streak-expert threshold"
                                   THEN StreakExpert ELSE StreakMaster),
                           "streak-master")
    IN  IF how = "streak tests first" THEN streaks \o totals
        ELSE totals \o streaks

NewAchievements_strictly_above(d) == NewAchievementsWith("compared with >", d)

NewAchievements_master_at_ten(d) ==
    NewAchievementsWith("streak-master at the streak-expert threshold", d)

NewAchievements_streaks_first(d) == NewAchievementsWith("streak tests first", d)

\* The local list `achievements` built by _check_achievements
NewAchievements(d) ==
    LET held == d.achievements
        pick(cond, name) == IF cond /\ ~Contains(held, name) THEN <<name>> ELSE <<>>
    IN  pick(d.total_exercises >= BeginnerTotal, "beginner")
        \o pick(d.total_exercises >= PracticeExpertTotal, "practice-expert")
        \o pick(d.total_exercises >= TerminalMasterTotal, "terminal-master")
        \o pick(d.streak >= StreakRookie, "streak-rookie")
        \o pick(d.streak >= StreakExpert, "streak-expert")
        \o pick(d.best_streak >= StreakMaster, "streak-master")

\* The loop of _check_achievements over that list: what it appends, which
\* is also what it prints.
RECURSIVE AppendNew(_, _)
AppendNew(held, new) ==
    IF new = <<>> THEN <<>>
    ELSE IF ~Contains(held, Head(new))
         THEN <<Head(new)>> \o AppendNew(Append(held, Head(new)), Tail(new))
         ELSE AppendNew(held, Tail(new))

Unlocked(d) == AppendNew(d.achievements, NewAchievements(d))

\* _check_achievements assigning the new list instead of appending to the
\* stored one.
_check_achievements_replaces(d) ==
    IF Unlocked(d) = <<>> THEN d ELSE [d EXCEPT !.achievements = Unlocked(d)]

\* ProgressTracker._check_achievements
_check_achievements(d) == [d EXCEPT !.achievements = @ \o Unlocked(d)]

\* Tally without the `not in` test: the entry is zeroed on every attempt.
Tally_zeroes_every_time(tallies, k, correct) ==
    LET new == [total |-> 1, correct |-> IF correct THEN 1 ELSE 0]
    IN  [x \in DOMAIN tallies \cup {k} |-> IF x = k THEN new ELSE tallies[x]]

\* One tally dict after an attempt: the entry is created zeroed when absent.
Tally(tallies, k, correct) ==
    LET cur == IF k \in DOMAIN tallies THEN tallies[k]
               ELSE [total |-> 0, correct |-> 0]
        new == [total |-> cur.total + 1,
                correct |-> cur.correct + (IF correct THEN 1 ELSE 0)]
    IN  [x \in DOMAIN tallies \cup {k} |-> IF x = k THEN new ELSE tallies[x]]

\* The counting of record_attempt with one statement changed; `how` names
\* the change.
CountedWith(how, d, category, command, correct, t) ==
    LET streak1 ==
            IF correct THEN d.streak + 1
            ELSE IF how = "streak not reset" THEN d.streak ELSE 0
    IN  [d EXCEPT
            !.total_exercises =
                IF how = "total counted in the else branch" /\ correct THEN @
                ELSE @ + 1,
            !.correct_answers =
                IF correct \/ how = "correct counted outside the if" THEN @ + 1
                ELSE @,
            !.streak = streak1,
            !.best_streak =
                IF ~correct \/ how = "best_streak not raised" THEN @
                ELSE IF how = "best_streak assigned streak" THEN streak1
                ELSE Max(@, streak1),
            !.categories_completed = Tally(@, category, correct),
            !.commands_practiced = Tally(@, command, correct),
            !.last_practice = isoformat(t)]

Counted_correct_outside_if(d, category, command, correct, t) ==
    CountedWith("correct counted outside the if", d, category, command, correct, t)

Counted_streak_not_reset(d, category, command, correct, t) ==
    CountedWith("streak not reset", d, category, command, correct, t)

Counted_best_not_raised(d, category, command, correct, t) ==
    CountedWith("best_streak not raised", d, category, command, correct, t)

Counted_best_assigned_streak(d, category, command, correct, t) ==
    CountedWith("best_streak assigned streak", d, category, command, correct, t)

Counted_total_in_else(d, category, command, correct, t) ==
    CountedWith("total counted in the else branch", d, category, command, correct, t)

\* The command tallied in categories_completed, beside the category.
Counted_command_among_categories(d, category, command, correct, t) ==
    LET streak1 == IF correct THEN d.streak + 1 ELSE 0
    IN  [d EXCEPT
            !.total_exercises = @ + 1,
            !.correct_answers = IF correct THEN @ + 1 ELSE @,
            !.streak = streak1,
            !.best_streak = IF correct THEN Max(@, streak1) ELSE @,
            !.categories_completed =
                Tally(Tally(@, category, correct), command, correct),
            !.last_practice = isoformat(t)]

\* ProgressTracker.record_attempt up to the call of _check_achievements
Counted(d, category, command, correct, t) ==
    LET streak1 == IF correct THEN d.streak + 1 ELSE 0
    IN  [d EXCEPT
            !.total_exercises = @ + 1,
            !.correct_answers = IF correct THEN @ + 1 ELSE @,
            !.streak = streak1,
            !.best_streak = IF correct THEN Max(@, streak1) ELSE @,
            !.categories_completed = Tally(@, category, correct),
            !.commands_practiced = Tally(@, command, correct),
            !.last_practice = isoformat(t)]

\* ProgressTracker.record_attempt: the data it leaves (and saves)
record_attempt(d, category, command, correct, t) ==
    _check_achievements(Counted(d, category, command, correct, t))

----------------------------------------------------------------------------
(* Python floats (IEEE 754 binary64) for the two operations the program    *)
(* does on them, int / int and float * int, each rounded to nearest, ties  *)
(* to even.  A positive float is [m, e]: m is its 53-bit significand, most *)
(* significant bit first, and its value is m * 2^e; zero has no bits.      *)
(* Arithmetic on m is done bit by bit, so that no number exceeds a small   *)
(* integer.                                                                *)

\* Bits of the significand of a float.
MantissaBits == 53

ZeroFloat == [m |-> <<>>, e |-> 0]

Zeros(n) == [i \in 1..n |-> 0]

RECURSIVE ToBits(_)
ToBits(n) == IF n = 0 THEN <<>> ELSE ToBits(n \div 2) \o <<n % 2>>

RECURSIVE StripZeros(_)
StripZeros(bits) ==
    IF bits # <<>> /\ Head(bits) = 0 THEN StripZeros(Tail(bits)) ELSE bits

\* bits + 1
RECURSIVE Increment(_)
Increment(bits) ==
    IF bits = <<>> THEN <<1>>
    ELSE IF bits[Len(bits)] = 0 THEN SubSeq(bits, 1, Len(bits) - 1) \o <<1>>
    ELSE Increment(SubSeq(bits, 1, Len(bits) - 1)) \o <<0>>

\* bits * k for a small k, from the last bit up with a carry; `done` are
\* the bits of the product found so far.
RECURSIVE MulSmallFrom(_, _, _, _)
MulSmallFrom(bits, k, carry, done) ==
    IF Len(done) = Len(bits) THEN ToBits(carry) \o done
    ELSE LET v == bits[Len(bits) - Len(done)] * k + carry
         IN  MulSmallFrom(bits, k, v \div 2, <<v % 2>> \o done)

MulSmall(bits, k) == StripZeros(MulSmallFrom(bits, k, 0, <<>>))

\* The float nearest to bits * 2^e, where `sticky` says that the exact
\* value is a little more than bits * 2^e (less than one unit of the last
\* bit more); ties go to the even significand.
RoundToFloat(bits, e, sticky) ==
    IF bits = <<>> THEN ZeroFloat
    ELSE IF Len(bits) <= MantissaBits
    THEN [m |-> bits \o Zeros(MantissaBits - Len(bits)),
          e |-> e - (MantissaBits - Len(bits))]
    ELSE LET keep == SubSeq(bits, 1, MantissaBits)
             rest == SubSeq(bits, MantissaBits + 1, Len(bits))
             more == sticky \/ \E i \in 2..Len(rest) : rest[i] = 1
             up == rest[1] = 1 /\ (more \/ keep[MantissaBits] = 1)
             raised == Increment(keep)
         IN  IF ~up THEN [m |-> keep, e |-> e + Len(rest)]
             ELSE IF Len(raised) > MantissaBits
             THEN [m |-> SubSeq(raised, 1, MantissaBits), e |-> e + Len(rest) + 1]
             ELSE [m |-> raised, e |-> e + Len(rest)]

\* The first n bits of r / t after the binary point (r < t), and the
\* remainder left; `bits` are the bits found so far.
RECURSIVE LongDivision(_, _, _, _)
LongDivision(r, t, n, bits) ==
    IF Len(bits) = n THEN [bits |-> bits, rem |-> r]
    ELSE IF 2 * r >= t THEN LongDivision(2 * r - t, t, n, Append(bits, 1))
    ELSE LongDivision(2 * r, t, n, Append(bits, 0))

\* x / y for ints x >= 0 and y > 0
TrueDivide(x, y) ==
    LET places == MantissaBits + 1 + Len(ToBits(y))
        fraction == LongDivision(x % y, y, places, <<>>)
    IN  RoundToFloat(StripZeros(ToBits(x \div y) \o fraction.bits),
                     0 - places, fraction.rem # 0)

\* f * k for a float f >= 0 and an int k > 0
Times(f, k) ==
    IF f.m = <<>> THEN ZeroFloat ELSE RoundToFloat(MulSmall(f.m, k), f.e, FALSE)

\* x / y * 100
PercentOf(x, y) == Times(TrueDivide(x, y), 100)

\* x / y * 100 for the small counts of the sessions and the store (a table,
\* so that it is computed once)
Tabulated == 0..(MaxAttempts + MaxClock + 1)

Percentages ==
    [x \in Tabulated |-> [y \in Tabulated \ {0} |-> PercentOf(x, y)]]

\* ProgressTracker.get_accuracy
get_accuracy(d) ==
    IF d.total_exercises = 0 THEN ZeroFloat
    ELSE IF d.correct_answers \in Tabulated /\ d.total_exercises \in Tabulated
    THEN Percentages[d.correct_answers][d.total_exercises]
    ELSE PercentOf(d.correct_answers, d.total_exercises)

\* ProgressTracker.get_stats
get_stats(d) ==
    [total |-> d.total_exercises,
     correct |-> d.correct_answers,
     accuracy |-> get_accuracy(d),
     streak |-> d.streak,
     best_streak |-> d.best_streak,
     achievements |-> d.achievements]

----------------------------------------------------------------------------
(* The exercise lists of the three practice modes.                         *)

\* The exercises of one category, in corpus order, as practice_category
\* builds them; `category` carries the method's category_key parameter.
\* The description and examples copied into each exercise are only printed
\* (by the prompt and by 'hint') and are left in COMMANDS_DB.
RECURSIVE CommandExercises(_, _, _)
CommandExercises(category_key, cmd, i) ==
    IF i > Len(cmd.exercises) THEN <<>>
    ELSE <<[category |-> category_key,
            command |-> cmd.command,
            question |-> cmd.exercises[i].question,
            answers |-> cmd.exercises[i].answers]>>
         \o CommandExercises(category_key, cmd, i + 1)

RECURSIVE CategoryFrom(_, _)
CategoryFrom(cat, j) ==
    IF j > Len(cat.commands) THEN <<>>
    ELSE CommandExercises(cat.key, cat.commands[j], 1) \o CategoryFrom(cat, j + 1)

CategoryExercises(category_key) == CategoryFrom(Category(category_key), 1)

\* all_exercises of random_practice, in corpus order
RECURSIVE AllFrom(_)
AllFrom(k) ==
    IF k > Len(COMMANDS_DB) THEN <<>>
    ELSE CategoryFrom(COMMANDS_DB[k], 1) \o AllFrom(k + 1)

AllExercises == AllFrom(1)

\* A sample drawn with replacement (random.choices) instead of a shuffle.
Shuffles_with_replacement(list) ==
    LET n == Len(list)
    IN  {[i \in 1..n |-> list[p[i]]] : p \in [1..n -> 1..n]}

\* random.shuffle(list): every permutation of the list
Shuffles(list) ==
    LET n == Len(list)
        perms == {p \in [1..n -> 1..n] : \A i, j \in 1..n : i # j => p[i] # p[j]}
    IN  {[i \in 1..n |-> list[p[i]]] : p \in perms}

\* The whole shuffled list instead of list[:count].
Prefix_whole_list(list, count) == list

\* list[:count]
Prefix(list, count) ==
    SubSeq(list, 1, IF count < Len(list) THEN count ELSE Len(list))

----------------------------------------------------------------------------
(* The record of record_attempt calls kept beside the program's state:     *)
(* calls made, calls with correct = True, the run of correct calls at the  *)
(* end, and the longest such run.                                          *)

NoHistory == [calls |-> 0, ok |-> 0, run |-> 0, peak |-> 0]

\* The record of the calls made by one practice run: calls made, and calls
\* with correct = True.
NoRun == [calls |-> 0, ok |-> 0]

NotedInRun(g, correct) ==
    [calls |-> g.calls + 1, ok |-> g.ok + (IF correct THEN 1 ELSE 0)]

Noted(g, correct) ==
    LET run1 == IF correct THEN g.run + 1 ELSE 0
    IN  [calls |-> g.calls + 1,
         ok |-> g.ok + (IF correct THEN 1 ELSE 0),
         run |-> run1,
         peak |-> IF run1 > g.peak THEN run1 ELSE g.peak]

----------------------------------------------------------------------------
(* Initial state: first launch, no progress file.                          *)

NoFile == [exists |-> FALSE, valid |-> FALSE, content |-> DefaultData]

NoReport == [mode |-> "none", attempts |-> 0, correct |-> 0,
             accuracy |-> ZeroFloat, removed |-> 0, remaining |-> 0]

Init ==
    /\ disk = NoFile
    /\ data = _load_progress(disk)
    /\ now = 0
    /\ pc = "menu"
    /\ exercises = <<>>
    /\ question_num = 0
    /\ session_total = 0
    /\ session_correct = 0
    /\ removed_count = 0
    /\ user_input = <<>>
    /\ outcome = "none"
    /\ notices = <<>>
    /\ report = NoReport
    /\ ghost = NoHistory
    /\ disk_ghost = NoHistory
    /\ run_ghost = NoRun

----------------------------------------------------------------------------
(* TermTrainer.run: the menu and the pages behind it.                      *)

Running == pc \notin {"exit", "crashed"}

InSession == pc \in {"category", "random", "wrong"}

\* A practice method has returned: its locals are gone, and run() clears
\* the screen before it prints the menu again.
Returned ==
    /\ exercises' = <<>>
    /\ question_num' = 0
    /\ session_total' = 0
    /\ session_correct' = 0
    /\ removed_count' = 0
    /\ user_input' = <<>>
    /\ outcome' = "none"
    /\ report' = NoReport
    /\ run_ghost' = NoRun

\* A practice method clears the screen and presents its first exercise.
StartSession(mode, list) ==
    /\ pc' = mode
    /\ exercises' = list
    /\ question_num' = 1
    /\ session_total' = 0
    /\ session_correct' = 0
    /\ removed_count' = 0
    /\ user_input' = <<>>
    /\ outcome' = "none"
    /\ report' = NoReport
    /\ run_ghost' = NoRun

\* A digit choice: practice_category(categories[idx]) up to its first prompt.
PracticeCategory(category_key) ==
    /\ pc = "menu"
    /\ CategoryExercises(category_key) # <<>>
    /\ \E list \in Shuffles(CategoryExercises(category_key)) :
           StartSession("category", list)
    /\ UNCHANGED <<data, disk, now, notices, ghost, disk_ghost>>

\* Choice 'r': random_practice(count) up to its first prompt.
RandomPractice(count) ==
    /\ pc = "menu"
    /\ \E list \in Shuffles(AllExercises) :
           StartSession("random", Prefix(list, count))
    /\ UNCHANGED <<data, disk, now, notices, ghost, disk_ghost>>

\* Choice 'w': show_wrong_notebook up to its first prompt.
ShowWrongNotebook ==
    /\ pc = "menu"
    /\ pc' = IF get_wrong_exercises(data) = <<>> THEN "page" ELSE "notebook"
    /\ data' = _ensure_wrong_answers(data)
    /\ UNCHANGED <<disk, now, notices, ghost, disk_ghost, session_vars>>

\* Choice 'p' in the notebook: practice_wrong_answers up to its first prompt.
PracticeWrongAnswers ==
    /\ pc = "notebook"
    /\ LET wrong_exercises == get_wrong_exercises(data)
       IN  IF wrong_exercises = <<>>
           THEN pc' = "page" /\ UNCHANGED session_vars
           ELSE StartSession("wrong", wrong_exercises)
    /\ data' = _ensure_wrong_answers(data)
    /\ UNCHANGED <<disk, now, notices, ghost, disk_ghost>>

\* Choice 'c' in the notebook: the confirmation prompt.
AskClear ==
    /\ pc = "notebook"
    /\ pc' = "confirm"
    /\ UNCHANGED <<data, disk, now, notices, ghost, disk_ghost, session_vars>>

\* Any other choice in the notebook returns to the menu.
LeaveNotebook ==
    /\ pc = "notebook"
    /\ pc' = "menu"
    /\ UNCHANGED <<data, disk, now, notices, ghost, disk_ghost, session_vars>>

\* The registry after the user confirmed clearing it.
Cleared(d) == [_ensure_wrong_answers(d) EXCEPT !.wrong_answers = <<>>]

\* ConfirmClear clearing on every answer but n.
ConfirmClear_unless_n(confirm) ==
    /\ pc = "confirm"
    /\ IF lower(strip(confirm)) # <<"n">>
       THEN /\ data' = Cleared(data)
            /\ disk' = save(data')
            /\ disk_ghost' = ghost
            /\ pc' = "page"
       ELSE /\ pc' = "menu"
            /\ UNCHANGED <<data, disk, disk_ghost>>
    /\ UNCHANGED <<now, notices, ghost, session_vars>>

\* The answer to "confirm clearing? (y/n)".
ConfirmClear(confirm) ==
    /\ pc = "confirm"
    /\ IF lower(strip(confirm)) = <<"y">>
       THEN /\ data' = Cleared(data)
            /\ disk' = save(data')
            /\ disk_ghost' = ghost
            /\ pc' = "page"
       ELSE /\ pc' = "menu"
            /\ UNCHANGED <<data, disk, disk_ghost>>
    /\ UNCHANGED <<now, notices, ghost, session_vars>>

\* Choices 'a', 'h', 's' and an out-of-range digit: a page that waits for Enter.
ShowPage ==
    /\ pc = "menu"
    /\ pc' = "page"
    /\ UNCHANGED <<data, disk, now, notices, ghost, disk_ghost, session_vars>>

\* Enter on a page or after a session-end report: back to the menu.
PressEnter ==
    /\ pc \in {"page", "report"}
    /\ pc' = "menu"
    /\ Returned
    /\ UNCHANGED <<data, disk, now, notices, ghost, disk_ghost>>

\* Choice 'q', or EOFError / KeyboardInterrupt at the menu prompt.
Exit ==
    /\ pc = "menu"
    /\ pc' = "exit"
    /\ UNCHANGED <<data, disk, now, notices, ghost, disk_ghost, session_vars>>

\* EOFError at an answer prompt: the practice method returns to the menu.
EndOfInput ==
    /\ InSession
    /\ pc' = "menu"
    /\ Returned
    /\ UNCHANGED <<data, disk, now, notices, ghost, disk_ghost>>

\* An exception no handler catches: EOFError at a prompt outside the answer
\* loops and the menu, KeyboardInterrupt outside the menu; or the process
\* is killed.
Crash ==
    /\ Running
    /\ pc' = "crashed"
    /\ Returned
    /\ UNCHANGED <<data, disk, now, notices, ghost, disk_ghost>>

\* The program is started again: TermTrainer.__init__ loads the file.
Launch ==
    /\ ~Running
    /\ data' = _load_progress(disk)
    /\ ghost' = IF disk.exists /\ disk.valid THEN disk_ghost ELSE NoHistory
    /\ pc' = "menu"
    /\ Returned
    /\ UNCHANGED <<disk, now, notices, disk_ghost>>

----------------------------------------------------------------------------
(* The answer loop shared by practice_category, random_practice and        *)
(* practice_wrong_answers: one action per branch taken on a line read.     *)

CurrentEx == exercises[question_num]

IsQuit(u) == lower(u) = <<"q","u","i","t">>
IsSkip(u) == lower(u) = <<"s","k","i","p">>
IsHint(u) == lower(u) = <<"h","i","n","t">>
IsSubmission(u) == ~IsQuit(u) /\ ~IsSkip(u) /\ ~IsHint(u) /\ u # <<>>

\* user_input = input(...).strip(), for each line a user types (a table, so
\* that it is computed once)
Stripped == [line \in Lines |-> strip(line)]

\* The if / elif chain without its last test, `elif not user_input`.
Branch_no_empty_test ==
    [line \in Lines |->
        LET u == strip(line)
        IN  IF IsQuit(u) THEN "quit"
            ELSE IF IsSkip(u) THEN "skip"
            ELSE IF IsHint(u) THEN "hint"
            ELSE "submission"]

\* The if / elif chain comparing user_input itself, without .lower().
BranchOf_case_sensitive(line) ==
    LET u == strip(line)
    IN  IF u = <<"q","u","i","t">> THEN "quit"
        ELSE IF u = <<"s","k","i","p">> THEN "skip"
        ELSE IF u = <<"h","i","n","t">> THEN "hint"
        ELSE IF u = <<>> THEN "empty"
        ELSE "submission"

\* The branch of the if / elif chain that handles a line read by input()
BranchOf(line) ==
    LET u == strip(line)
    IN  IF IsQuit(u) THEN "quit"
        ELSE IF IsSkip(u) THEN "skip"
        ELSE IF IsHint(u) THEN "hint"
        ELSE IF u = <<>> THEN "empty"
        ELSE "submission"

\* The branch for each of the lines the sessions read (a table)
Branch == [line \in Lines |-> BranchOf(line)]

\* The answer lists of the corpus, which are also those of registry entries.
AnswerLists == {AllExercises[i].answers : i \in 1..Len(AllExercises)}

\* self.check_answer(user_input, answers) for each line and each answer list
\* of the corpus (a table)
Judged ==
    [line \in Lines |->
        [answers \in AnswerLists |-> check_answer(strip(line), answers)]]

\* self.check_answer(user_input, ex['answers'])
Accepted(line, answers) ==
    IF answers \in AnswerLists THEN Judged[line][answers]
    ELSE check_answer(strip(line), answers)

\* (x / y * 100) if y > 0 else 0
Percent(x, y) ==
    IF y <= 0 THEN ZeroFloat
    ELSE IF x \in Tabulated /\ y \in Tabulated THEN Percentages[x][y]
    ELSE PercentOf(x, y)

\* The report with `remaining` taken from the exercises presented instead
\* of the entries removed.
SessionReport_remaining_from_asked(mode, total, correct, removed, asked, listed) ==
    IF mode = "wrong"
    THEN [mode |-> mode, attempts |-> asked, correct |-> removed,
          accuracy |-> Percent(removed, asked),
          removed |-> removed, remaining |-> listed - asked]
    ELSE [mode |-> mode, attempts |-> total, correct |-> correct,
          accuracy |-> Percent(correct, total),
          removed |-> 0, remaining |-> 0]

\* The figures printed after the loop of each practice method.
SessionReport(mode, total, correct, removed, asked, listed) ==
    IF mode = "wrong"
    THEN [mode |-> mode, attempts |-> asked, correct |-> removed,
          accuracy |-> Percent(removed, asked),
          removed |-> removed, remaining |-> listed - removed]
    ELSE [mode |-> mode, attempts |-> total, correct |-> correct,
          accuracy |-> Percent(correct, total),
          removed |-> 0, remaining |-> 0]

\* Advance going back to the first exercise after the last one instead of
\* leaving the loop.
Advance_starts_over ==
    /\ question_num' = IF question_num < Len(exercises) THEN question_num + 1 ELSE 1
    /\ pc' = pc
    /\ report' = report

\* The end of one pass of `for ex in exercises` after a break out of the
\* `while True`: the next exercise is presented, or the loop is over and the
\* report is printed.  The primed counters are those of the pass just ended.
Advance ==
    IF question_num < Len(exercises)
    THEN /\ question_num' = question_num + 1
         /\ pc' = pc
         /\ report' = report
    ELSE /\ question_num' = question_num
         /\ pc' = "report"
         /\ report' = SessionReport(pc, session_total', session_correct',
                                    removed_count', question_num, Len(exercises))

\* 'quit' without the second test after the `while True`: only the inner
\* loop is left.
Quit_inner_break_only(line) ==
    /\ InSession
    /\ Branch[line] = "quit"
    /\ user_input' = Stripped[line]
    /\ outcome' = "quit"
    /\ UNCHANGED <<data, disk, now, notices, ghost, disk_ghost, exercises,
                   session_total, session_correct, removed_count, run_ghost>>
    /\ Advance

\* 'quit': both loops are left and the report is printed.
Quit(line) ==
    /\ InSession
    /\ Branch[line] = "quit"
    /\ user_input' = Stripped[line]
    /\ outcome' = "quit"
    /\ pc' = "report"
    /\ report' = SessionReport(pc, session_total, session_correct,
                               removed_count, question_num, Len(exercises))
    /\ UNCHANGED <<data, disk, now, notices, ghost, disk_ghost, exercises,
                   question_num, session_total, session_correct, removed_count,
                   run_ghost>>

\* 'hint': the hint is printed and the same exercise prompts again.
Hint(line) ==
    /\ InSession
    /\ Branch[line] = "hint"
    /\ user_input' = Stripped[line]
    /\ outcome' = "hint"
    /\ UNCHANGED <<data, disk, now, pc, notices, ghost, disk_ghost, exercises,
                   question_num, session_total, session_correct,
                   removed_count, report, run_ghost>>

\* An empty line: the same exercise prompts again.
Empty(line) ==
    /\ InSession
    /\ Branch[line] = "empty"
    /\ user_input' = Stripped[line]
    /\ outcome' = "empty"
    /\ UNCHANGED <<data, disk, now, pc, notices, ghost, disk_ghost, exercises,
                   question_num, session_total, session_correct,
                   removed_count, report, run_ghost>>

\* record_attempt(category, command, False) and then record_wrong_answer:
\* the first reads the clock and saves, the second reads the clock again and
\* does not save.
Missed(ex, user_answer) ==
    /\ data.total_exercises < MaxAttempts
    /\ LET t1 == Later(now)
           t2 == Later(t1)
           attempted == record_attempt(data, ex.category, ex.command, FALSE, t1)
       IN  /\ disk' = save(attempted)
           /\ data' = record_wrong_answer(attempted, ex.category, ex.command,
                                          ex.question, ex.answers, user_answer, t2)
           /\ notices' = notices \o
                  Unlocked(Counted(data, ex.category, ex.command, FALSE, t1))
           /\ now' = t2
    /\ ghost' = Noted(ghost, FALSE)
    /\ disk_ghost' = ghost'
    /\ run_ghost' = NotedInRun(run_ghost, FALSE)

\* record_attempt(category, command, True), which saves
Passed(d, ex) ==
    /\ data.total_exercises < MaxAttempts
    /\ LET t == Later(now)
       IN  /\ data' = record_attempt(d, ex.category, ex.command, TRUE, t)
           /\ notices' = notices \o
                  Unlocked(Counted(d, ex.category, ex.command, TRUE, t))
           /\ now' = t
    /\ disk' = save(data')
    /\ ghost' = Noted(ghost, TRUE)
    /\ disk_ghost' = ghost'
    /\ run_ghost' = NotedInRun(run_ghost, TRUE)

\* 'skip' in practice_category and random_practice
Skip(line) ==
    /\ pc \in {"category", "random"}
    /\ Branch[line] = "skip"
    /\ user_input' = Stripped[line]
    /\ outcome' = "skip"
    /\ Missed(CurrentEx, SkippedAnswer)
    /\ session_total' = session_total + 1
    /\ UNCHANGED <<exercises, session_correct, removed_count>>
    /\ Advance

\* 'skip' in practice_wrong_answers
SkipWrong(line) ==
    /\ pc = "wrong"
    /\ Branch[line] = "skip"
    /\ user_input' = Stripped[line]
    /\ outcome' = "skip"
    /\ UNCHANGED <<data, disk, now, notices, ghost, disk_ghost, exercises,
                   session_total, session_correct, removed_count, run_ghost>>
    /\ Advance

\* Submit with the `break` after a wrong answer left out: the same exercise
\* prompts again.
Submit_retries_after_miss(line) ==
    /\ pc \in {"category", "random"}
    /\ Branch[line] = "submission"
    /\ user_input' = Stripped[line]
    /\ session_total' = session_total + 1
    /\ IF Accepted(line, CurrentEx.answers)
       THEN /\ outcome' = "correct"
            /\ Passed(data, CurrentEx)
            /\ session_correct' = session_correct + 1
            /\ Advance
       ELSE /\ outcome' = "wrong"
            /\ Missed(CurrentEx, Stripped[line])
            /\ session_correct' = session_correct
            /\ UNCHANGED <<question_num, pc, report>>
    /\ UNCHANGED <<exercises, removed_count>>

\* Any other line in practice_category and random_practice
Submit(line) ==
    /\ pc \in {"category", "random"}
    /\ Branch[line] = "submission"
    /\ user_input' = Stripped[line]
    /\ session_total' = session_total + 1
    /\ IF Accepted(line, CurrentEx.answers)
       THEN /\ outcome' = "correct"
            /\ Passed(data, CurrentEx)
            /\ session_correct' = session_correct + 1
       ELSE /\ outcome' = "wrong"
            /\ Missed(CurrentEx, Stripped[line])
            /\ session_correct' = session_correct
    /\ UNCHANGED <<exercises, removed_count>>
    /\ Advance

\* SubmitWrong fetching the list again from the registry after the answer.
SubmitWrong_relists(line) ==
    /\ pc = "wrong"
    /\ Branch[line] = "submission"
    /\ user_input' = Stripped[line]
    /\ IF Accepted(line, CurrentEx.answers)
       THEN /\ outcome' = "correct"
            /\ Passed(remove_wrong_answer(data, CurrentEx.key), CurrentEx)
            /\ removed_count' = removed_count + 1
       ELSE /\ outcome' = "wrong"
            /\ Missed(CurrentEx, Stripped[line])
            /\ removed_count' = removed_count
    /\ exercises' = get_wrong_exercises(data')
    /\ UNCHANGED <<session_total, session_correct>>
    /\ Advance

\* Any other line in practice_wrong_answers
SubmitWrong(line) ==
    /\ pc = "wrong"
    /\ Branch[line] = "submission"
    /\ user_input' = Stripped[line]
    /\ IF Accepted(line, CurrentEx.answers)
       THEN /\ outcome' = "correct"
            /\ Passed(remove_wrong_answer(data, CurrentEx.key), CurrentEx)
            /\ removed_count' = removed_count + 1
       ELSE /\ outcome' = "wrong"
            /\ Missed(CurrentEx, Stripped[line])
            /\ removed_count' = removed_count
    /\ UNCHANGED <<exercises, session_total, session_correct>>
    /\ Advance

\* One line read at the answer prompt of a practice loop, and what the
\* loop does with it.
ReadLine(line) ==
    \/ Quit(line)
    \/ Hint(line)
    \/ Empty(line)
    \/ Skip(line)
    \/ SkipWrong(line)
    \/ Submit(line)
    \/ SubmitWrong(line)

ReadAnswer == \E line \in Lines : ReadLine(line)

RandomCounts == {SmallCount, DefaultCount}

Next ==
    \/ \E category_key \in CategoryKeys : PracticeCategory(category_key)
    \/ \E count \in RandomCounts : RandomPractice(count)
    \/ ShowWrongNotebook
    \/ PracticeWrongAnswers
    \/ AskClear
    \/ LeaveNotebook
    \/ \E confirm \in Confirms : ConfirmClear(confirm)
    \/ ShowPage
    \/ PressEnter
    \/ Exit
    \/ ReadAnswer
    \/ EndOfInput
    \/ Crash
    \/ Launch

Spec == Init /\ [][Next]_vars

----------------------------------------------------------------------------
(* The progress store on its own: its operations called in any order with  *)
(* any arguments, starting from the default state.                         *)

\* The (category, command) pairs of the corpus.
Practised == {<<AllExercises[i].category, AllExercises[i].command>> :
                 i \in 1..Len(AllExercises)}

\* The answers recorded with a miss.
UserAnswers == {SkippedAnswer, <<"c","d">>}

\* record_attempt calling save() before _check_achievements().
RecordAttemptCall_saves_first(category, command, correct) ==
    /\ now' = Later(now)
    /\ data' = record_attempt(data, category, command, correct, now')
    /\ notices' = notices \o Unlocked(Counted(data, category, command, correct, now'))
    /\ disk' = save(Counted(data, category, command, correct, now'))
    /\ ghost' = Noted(ghost, correct)
    /\ disk_ghost' = ghost'
    /\ UNCHANGED <<pc, session_vars>>

\* One call of record_attempt from outside a session.
RecordAttemptCall(category, command, correct) ==
    /\ now' = Later(now)
    /\ data' = record_attempt(data, category, command, correct, now')
    /\ notices' = notices \o Unlocked(Counted(data, category, command, correct, now'))
    /\ disk' = save(data')
    /\ ghost' = Noted(ghost, correct)
    /\ disk_ghost' = ghost'
    /\ UNCHANGED <<pc, session_vars>>

CallRecordAttempt(category, command, correct) ==
    /\ now < MaxClock
    /\ RecordAttemptCall(category, command, correct)

CallRecordWrongAnswer(ex, user_answer) ==
    /\ now < MaxClock
    /\ now' = Later(now)
    /\ data' = record_wrong_answer(data, ex.category, ex.command, ex.question,
                                   ex.answers, user_answer, now')
    /\ UNCHANGED <<disk, pc, notices, ghost, disk_ghost, session_vars>>

CallRemoveWrongAnswer(key) ==
    /\ data' = remove_wrong_answer(data, key)
    /\ UNCHANGED <<disk, now, pc, notices, ghost, disk_ghost, session_vars>>

\* The three statements of show_wrong_notebook that clear the registry.
CallClear ==
    /\ data' = Cleared(data)
    /\ disk' = save(data')
    /\ disk_ghost' = ghost
    /\ UNCHANGED <<now, pc, notices, ghost, session_vars>>

NextStore ==
    \/ \E p \in Practised : \E correct \in BOOLEAN :
           CallRecordAttempt(p[1], p[2], correct)
    \/ \E i \in 1..Len(AllExercises) : \E user_answer \in UserAnswers :
           CallRecordWrongAnswer(AllExercises[i], user_answer)
    \/ \E i \in 1..Len(AllExercises) :
           CallRemoveWrongAnswer(WrongKey(AllExercises[i].category,
               AllExercises[i].command, AllExercises[i].question))
    \/ CallClear

SpecStore == Init /\ [][NextStore]_vars

----------------------------------------------------------------------------
(* A long drill: record_attempt called again and again for one command,    *)
(* from the default state, far enough for every threshold of               *)
(* _check_achievements to be crossed.                                      *)

\* The command drilled.
Drilled == AllExercises[1]

DrillAttempt(correct) ==
    /\ data.total_exercises < MaxDrill
    /\ correct \/ data.total_exercises - data.correct_answers < MaxMisses
    /\ RecordAttemptCall(Drilled.category, Drilled.command, correct)

NextDrill == \E correct \in BOOLEAN : DrillAttempt(correct)

SpecDrill == Init /\ [][NextDrill]_vars

----------------------------------------------------------------------------
(* The store and its file: attempts are recorded (and saved), the file is  *)
(* deleted or damaged from outside, and a new ProgressTracker is           *)
(* constructed, which loads whatever is there.                             *)

\* The file is deleted: progress_file.exists() is false from now on.
FileRemoved ==
    /\ disk.exists
    /\ disk' = [disk EXCEPT !.exists = FALSE, !.valid = FALSE]
    /\ UNCHANGED <<data, now, pc, notices, ghost, disk_ghost, session_vars>>

\* The file is truncated, overwritten with something that is not JSON, or
\* made unreadable: open() or json.load() will raise.
FileDamaged ==
    /\ disk.exists
    /\ disk.valid
    /\ disk' = [disk EXCEPT !.valid = FALSE]
    /\ UNCHANGED <<data, now, pc, notices, ghost, disk_ghost, session_vars>>

\* ProgressTracker.__init__: self.data = self._load_progress()
Reload ==
    /\ data' = _load_progress(disk)
    /\ ghost' = IF disk.exists /\ disk.valid THEN disk_ghost ELSE NoHistory
    /\ UNCHANGED <<disk, now, pc, notices, disk_ghost, session_vars>>

NextLoad ==
    \/ \E p \in Practised : \E correct \in BOOLEAN :
           CallRecordAttempt(p[1], p[2], correct)
    \/ FileRemoved
    \/ FileDamaged
    \/ Reload

SpecLoad == Init /\ [][NextLoad]_vars

----------------------------------------------------------------------------
(* One answer prompt on its own: a category run waits for the answer to    *)
(* one exercise, and user_input holds the line typed, any of a set of      *)
(* lines built from words, gaps and padding, for any of several accepted-  *)
(* answer lists.  The actions apply normalize_answer and check_answer to   *)
(* it, and the if / elif chain of the loop with the judging behind it.     *)

Tokens == { <<"l","s">>, <<"-","a">>, <<"-","A">>,
            <<"q","u","i","t">>, <<"S","k","I","p">>, <<"H","I","N","T">> }

Gaps == { <<" ">>, <<" "," ">>, <<"\t">> }

Leads == { <<>>, <<" ">> }

Trails == { <<>>, <<" ">>, <<"\t"," ">> }

TokenLists == UNION {[1..n -> Tokens] : n \in 0..MaxTokens}

\* The words of a list with the same gap between neighbours.
RECURSIVE Spaced(_, _)
Spaced(gap, list) ==
    IF list = <<>> THEN <<>>
    ELSE IF Len(list) = 1 THEN list[1]
    ELSE list[1] \o gap \o Spaced(gap, Tail(list))

\* The lines typed.
Typed ==
    {lead \o Spaced(gap, list) \o trail :
        lead \in Leads, gap \in Gaps, list \in TokenLists, trail \in Trails}

\* Accepted-answer lists: as in the corpus, stored with irregular
\* whitespace (as a progress file may hold them), and holding a control
\* word.
AcceptedLists ==
    { << <<"l","s"," ","-","a">>, <<"l","s"," ","-","A">> >>,
      << <<"l","s"," "," ","-","a">> >>,
      << <<" ","l","s">> >>,
      << <<"q","u","i","t">>, <<"s","k","i","p">>, <<"h","i","n","t">> >> }

InitPrompt ==
    /\ disk = NoFile
    /\ data = _load_progress(disk)
    /\ now = 0
    /\ pc = "category"
    /\ \E answers \in AcceptedLists :
           exercises = << [category |-> Drilled.category,
                           command |-> Drilled.command,
                           question |-> Drilled.question,
                           answers |-> answers] >>
    /\ question_num = 1
    /\ session_total = 0
    /\ session_correct = 0
    /\ removed_count = 0
    /\ user_input \in Typed
    /\ outcome = "none"
    /\ notices = <<>>
    /\ report = NoReport
    /\ ghost = NoHistory
    /\ disk_ghost = NoHistory
    /\ run_ghost = NoRun

\* self.normalize_answer(user_input)
Normalize ==
    /\ user_input' = normalize_answer(user_input)
    /\ outcome' = "normalized"
    /\ UNCHANGED <<data, disk, now, pc, notices, ghost, disk_ghost, exercises,
                   question_num, session_total, session_correct,
                   removed_count, report, run_ghost>>

\* self.check_answer(user_input, ex['answers'])
Judge ==
    /\ outcome' = IF check_answer(user_input, CurrentEx.answers)
                  THEN "correct" ELSE "wrong"
    /\ UNCHANGED <<data, disk, now, pc, notices, ghost, disk_ghost, exercises,
                   question_num, session_total, session_correct,
                   removed_count, user_input, report, run_ghost>>

\* input().strip(), the if / elif chain, and check_answer when no branch of
\* the chain took the line: which way the line went.
Handle ==
    /\ user_input' = strip(user_input)
    /\ outcome' = IF BranchOf(user_input) # "submission" THEN BranchOf(user_input)
                  ELSE IF check_answer(user_input', CurrentEx.answers)
                       THEN "correct" ELSE "wrong"
    /\ UNCHANGED <<data, disk, now, pc, notices, ghost, disk_ghost, exercises,
                   question_num, session_total, session_correct,
                   removed_count, report, run_ghost>>

NextPrompt ==
    \/ Normalize
    \/ Judge
    \/ Handle

SpecPrompt == InitPrompt /\ [][NextPrompt]_vars

----------------------------------------------------------------------------
(* One process on a file system whose writes may fail: save() raises        *)
(* OSError out of record_attempt, no caller catches it, and the process     *)
(* ends with a traceback; what it leaves behind is the last state.          *)

\* The file after a save() that raised: untouched when open() failed, and
\* cut short (no longer JSON) when open(..., 'w') had truncated it before
\* json.dump failed.
FailedSave(file, truncated) ==
    IF truncated THEN [file EXCEPT !.exists = TRUE, !.valid = FALSE] ELSE file

\* A skip or a submission whose record_attempt gets as far as save(), which
\* raises: the statements after the call are not executed.
WriteFails(line, truncated) ==
    /\ InSession
    /\ data.total_exercises < MaxAttempts
    /\ Branch[line] \in {"skip", "submission"}
    /\ ~(Branch[line] = "skip" /\ pc = "wrong")
    /\ LET correct == Branch[line] = "submission"
                          /\ Accepted(line, CurrentEx.answers)
           d == IF correct /\ pc = "wrong"
                THEN remove_wrong_answer(data, CurrentEx.key)
                ELSE data
           t == Later(now)
       IN  /\ data' = record_attempt(d, CurrentEx.category, CurrentEx.command,
                                     correct, t)
           /\ notices' = notices \o
                  Unlocked(Counted(d, CurrentEx.category, CurrentEx.command,
                                   correct, t))
           /\ now' = t
           /\ ghost' = Noted(ghost, correct)
    /\ disk' = FailedSave(disk, truncated)
    /\ disk_ghost' = disk_ghost
    /\ pc' = "crashed"
    /\ Returned

NextWrite ==
    \/ \E category_key \in CategoryKeys : PracticeCategory(category_key)
    \/ \E count \in RandomCounts : RandomPractice(count)
    \/ ShowWrongNotebook
    \/ PracticeWrongAnswers
    \/ PressEnter
    \/ ReadAnswer
    \/ \E line \in Lines : \E truncated \in BOOLEAN : WriteFails(line, truncated)

SpecWrite == Init /\ [][NextWrite]_vars

----------------------------------------------------------------------------
(* The practice runs with a user who does not answer hint or nothing for    *)
(* ever: at every answer prompt the user sooner or later types something    *)
(* else, or the input ends.  The runs are those of the category with two    *)
(* exercises and the replays of what was missed in them.                    *)

\* A line other than hint and the empty line is read, or input() raises
\* EOFError.
LeavesPrompt ==
    \/ \E line \in Lines :
           /\ InSession
           /\ Branch[line] \notin {"hint", "empty"}
           /\ ReadLine(line)
    \/ EndOfInput

NextLive ==
    \/ PracticeCategory(Drilled.category)
    \/ ShowWrongNotebook
    \/ PracticeWrongAnswers
    \/ PressEnter
    \/ ReadAnswer
    \/ EndOfInput

SpecLive == Init /\ [][NextLive]_vars /\ WF_vars(LeavesPrompt)

----------------------------------------------------------------------------
(* Vocabulary of the properties.                                           *)

\* The file holds exactly the in-memory state.
Persisted == disk.exists /\ disk.valid /\ disk.content = data

EntryOf(wrong, key) == wrong[IndexOf(wrong, key)]

ExKey(ex) == WrongKey(ex.category, ex.command, ex.question)

TallyOf(tallies, k) ==
    IF k \in DOMAIN tallies THEN tallies[k] ELSE [total |-> 0, correct |-> 0]

\* The run is a replay of the registry (also once its report is printed).
InReplay == pc = "wrong" \/ (pc = "report" /\ report.mode = "wrong")

\* The step reads `line` as a skip, in whichever mode the run is.
SkipStep(line) == Skip(line) \/ SkipWrong(line)

\* The step reads `line` as a submission, in whichever mode the run is.
SubmitStep(line) == Submit(line) \/ SubmitWrong(line)

\* What one record_attempt(category, command, False) and one
\* record_wrong_answer for ex's key change, from data to data'.
MissBookkeeping(ex) ==
    LET key == ExKey(ex)
        before == data.wrong_answers
        after == data'.wrong_answers
    IN  /\ data'.total_exercises = data.total_exercises + 1
        /\ data'.correct_answers = data.correct_answers
        /\ data'.streak = 0
        /\ TallyOf(data'.categories_completed, ex.category).total
               = TallyOf(data.categories_completed, ex.category).total + 1
        /\ TallyOf(data'.commands_practiced, ex.command).total
               = TallyOf(data.commands_practiced, ex.command).total + 1
        /\ HasKey(after, key)
        /\ EntryOf(after, key).wrong_count =
               IF HasKey(before, key) THEN EntryOf(before, key).wrong_count + 1
               ELSE 1

----------------------------------------------------------------------------
(* C1: in every practice mode, once a wrong submission or a skip has been  *)
(* handled, the persisted state equals the in-memory state, so that the    *)
(* persisted registry holds the entry created or incremented in the step.  *)
C1_PersistedAfterMiss ==
    (InSession \/ pc = "report") /\ outcome \in {"wrong", "skip"} => Persisted

(* C2: in each of the three modes a skip does the bookkeeping of a wrong   *)
(* submission: total_exercises + 1, streak 0, one more total in the        *)
(* category and command tallies, and the exercise's registry entry created *)
(* with wrong_count 1 or incremented.                                      *)
C2_SkipBookkeeping ==
    [][\A line \in Lines :
          InSession /\ outcome' = "skip" /\ SkipStep(line)
          => MissBookkeeping(CurrentEx)]_vars

(* C3: in every mode a submission the matcher rejects causes exactly one   *)
(* record_attempt(category, command, False) and one record_wrong_answer    *)
(* for the exercise's key in that step: afterwards streak is 0 and the     *)
(* registry entry of the key has the submitted text as last_user_answer;   *)
(* no other entry changes.                                                 *)
C3_RejectedSubmission ==
    [][\A line \in Lines :
          /\ InSession /\ outcome' = "wrong"
          /\ ~check_answer(strip(line), CurrentEx.answers)
          /\ SubmitStep(line)
          => /\ MissBookkeeping(CurrentEx)
             /\ EntryOf(data'.wrong_answers, ExKey(CurrentEx)).last_user_answer
                    = strip(line)
             /\ user_input' = strip(line)
             /\ \A i \in 1..Len(data.wrong_answers) :
                    data.wrong_answers[i].key # ExKey(CurrentEx)
                    => data'.wrong_answers[i] = data.wrong_answers[i]
             /\ Len(data'.wrong_answers) \in
                    {Len(data.wrong_answers), Len(data.wrong_answers) + 1}]_vars

\* A replayed entry was missed again: its count is 2 and it holds the new text.
C3_Witness ==
    /\ InReplay
    /\ outcome = "wrong"
    /\ data.streak = 0
    /\ \E i \in 1..Len(data.wrong_answers) :
           /\ data.wrong_answers[i].wrong_count = 2
           /\ data.wrong_answers[i].last_user_answer = user_input

(* C4: in replay mode a submission the matcher accepts removes the         *)
(* exercise's registry entry and records one correct attempt               *)
(* (correct_answers and streak each + 1), and the state persisted at the   *)
(* end of the step no longer contains the entry.                           *)
C4_ReplayCorrect ==
    [][\A line \in Lines :
          /\ pc = "wrong" /\ outcome' = "correct"
          /\ check_answer(strip(line), CurrentEx.answers)
          /\ SubmitWrong(line)
          => /\ HasKey(data.wrong_answers, CurrentEx.key)
             /\ ~HasKey(data'.wrong_answers, CurrentEx.key)
             /\ Len(data'.wrong_answers) = Len(data.wrong_answers) - 1
             /\ data'.total_exercises = data.total_exercises + 1
             /\ data'.correct_answers = data.correct_answers + 1
             /\ data'.streak = data.streak + 1
             /\ disk'.exists /\ disk'.valid
             /\ ~HasKey(disk'.content.wrong_answers, CurrentEx.key)
             /\ disk'.content = data']_vars

\* A replay run has just removed an entry by a correct answer.
C4_Witness ==
    /\ InReplay
    /\ outcome = "correct"
    /\ removed_count = 1
    /\ data.correct_answers = 1
    /\ ~HasKey(data.wrong_answers, exercises[question_num].key)
    /\ Persisted

(* C5: an entry leaves the registry of the running program only when its   *)
(* key is answered correctly in a replay run or the user confirms clearing *)
(* the registry; no other step (a correct answer in category or random     *)
(* mode, a skip, a hint, a quit, a wrong answer) removes an entry.         *)
C5_RemovedOnlyByReplayOrClear ==
    [][Running =>
          \A i \in 1..Len(data.wrong_answers) :
             ~HasKey(data'.wrong_answers, data.wrong_answers[i].key)
             => \/ /\ pc = "wrong"
                   /\ CurrentEx.key = data.wrong_answers[i].key
                   /\ \E line \in Lines :
                          /\ SubmitWrong(line)
                          /\ check_answer(strip(line), CurrentEx.answers)
                \/ /\ pc = "confirm"
                   /\ \E confirm \in Confirms :
                          /\ ConfirmClear(confirm)
                          /\ lower(strip(confirm)) = <<"y">>]_vars

\* Outside replay, an exercise that is in the registry was answered
\* correctly, and its entry is still there.
C5_Witness ==
    /\ pc \in {"category", "random", "report"}
    /\ ~InReplay
    /\ outcome = "correct"
    /\ \E i \in 1..Len(data.wrong_answers) :
           check_answer(user_input, data.wrong_answers[i].answers)

(* C6: from the default state, after N record_attempt calls of which K had *)
(* correct = True, total_exercises = N and correct_answers = K.            *)
C6_AttemptAggregation ==
    /\ data.total_exercises = ghost.calls
    /\ data.correct_answers = ghost.ok

C6_Witness == ghost.calls = 4 /\ ghost.ok = 2 /\ data.total_exercises = 4

(* C7: from the default state, streak is the number of correct = True      *)
(* calls at the end of the record_attempt sequence: a miss sets it to 0,   *)
(* the first correct call after a miss sets it to 1.                       *)
C7_StreakIsTrailingRun == data.streak = ghost.run

\* correct, miss, correct: the streak climbed again from 1
C7_Witness == ghost.calls = 3 /\ ghost.ok = 2 /\ ghost.run = 1 /\ data.streak = 1

(* C8: best_streak >= streak in every state the store reaches from the     *)
(* default state by record_attempt, record_wrong_answer,                   *)
(* remove_wrong_answer and registry clearing in any order.                 *)
C8_BestAtLeastStreak == data.best_streak >= data.streak

C8_Witness == data.best_streak > data.streak /\ data.streak > 0

(* C9: best_streak is the high-water mark of streak: it never decreases,   *)
(* and from the default state it equals the largest value streak has had.  *)
C9_BestIsHighWaterMark ==
    /\ [](data.best_streak = ghost.peak)
    /\ [][data'.best_streak >= data.best_streak]_vars

\* The streak was broken after reaching 2 and the mark stayed.
C9_Witness == data.streak = 0 /\ data.best_streak = 2 /\ ghost.peak = 2

(* C10: correct_answers <= total_exercises in every state the store        *)
(* reaches from the default state.                                         *)
C10_CorrectAtMostTotal == data.correct_answers <= data.total_exercises

C10_Witness ==
    /\ data.total_exercises = 3
    /\ data.correct_answers = 3
    /\ data.wrong_answers # <<>>

----------------------------------------------------------------------------
(* Vocabulary of the achievement properties.                               *)

\* The identifiers in the order of the achievement table.
TableOrder == <<"beginner", "practice-expert", "terminal-master",
                "streak-rookie", "streak-expert", "streak-master">>

TableIndex(name) == CHOOSE i \in 1..Len(TableOrder) : TableOrder[i] = name

InTableOrder(seq) ==
    \A i, j \in 1..Len(seq) : i < j => TableIndex(seq[i]) < TableIndex(seq[j])

NoDuplicates(seq) == \A i, j \in 1..Len(seq) : seq[i] = seq[j] => i = j

IsPrefix(a, b) == Len(a) <= Len(b) /\ \A i \in 1..Len(a) : a[i] = b[i]

Holds(name) == Contains(data.achievements, name)

\* What the step appends to the achievement list.
Appended ==
    SubSeq(data'.achievements, Len(data.achievements) + 1, Len(data'.achievements))

----------------------------------------------------------------------------
(* C11: the achievement list never holds an identifier twice, and every    *)
(* step leaves the identifiers it held where they were: the list before    *)
(* the step is a prefix of the list after it.                              *)
C11_AchievementsOnlyGrow ==
    /\ [](NoDuplicates(data.achievements))
    /\ [][IsPrefix(data.achievements, data'.achievements)]_vars

\* All six identifiers are held, unlocked over several calls.
C11_Witness ==
    /\ Len(data.achievements) = Len(TableOrder)
    /\ data.streak < StreakRookie

----------------------------------------------------------------------------
(* C12: after a record_attempt, every identifier whose condition holds on  *)
(* the counters the call left is held: total_exercises >= 10, 50, 100 for  *)
(* beginner, practice-expert, terminal-master; streak >= 5, 10 for         *)
(* streak-rookie, streak-expert; best_streak >= 20 for streak-master.      *)
C12_EarnedIsHeld ==
    ghost.calls > 0 =>
        /\ data.total_exercises >= BeginnerTotal => Holds("beginner")
        /\ data.total_exercises >= PracticeExpertTotal => Holds("practice-expert")
        /\ data.total_exercises >= TerminalMasterTotal => Holds("terminal-master")
        /\ data.streak >= StreakRookie => Holds("streak-rookie")
        /\ data.streak >= StreakExpert => Holds("streak-expert")
        /\ data.best_streak >= StreakMaster => Holds("streak-master")

\* The call that makes total_exercises 10 and streak 5 at once.
C12_Witness ==
    /\ data.total_exercises = BeginnerTotal
    /\ data.streak = StreakRookie
    /\ data.best_streak = StreakRookie

----------------------------------------------------------------------------
(* C13: from the default state, an identifier is held only once earned:    *)
(* beginner, practice-expert, terminal-master only with total_exercises    *)
(* at least 10, 50, 100; streak-rookie, streak-expert, streak-master only  *)
(* with best_streak at least 5, 10, 20.                                    *)
C13_HeldIsEarned ==
    /\ Holds("beginner") => data.total_exercises >= BeginnerTotal
    /\ Holds("practice-expert") => data.total_exercises >= PracticeExpertTotal
    /\ Holds("terminal-master") => data.total_exercises >= TerminalMasterTotal
    /\ Holds("streak-rookie") => data.best_streak >= StreakRookie
    /\ Holds("streak-expert") => data.best_streak >= StreakExpert
    /\ Holds("streak-master") => data.best_streak >= StreakMaster

\* streak-expert is held after the streak was lost, and streak-master and
\* practice-expert are not.
C13_Witness ==
    /\ Holds("streak-expert")
    /\ data.streak < StreakRookie
    /\ ~Holds("streak-master")
    /\ ~Holds("practice-expert")

----------------------------------------------------------------------------
(* C14: no identifier is announced twice; every step announces exactly     *)
(* the identifiers it appends to the achievement list, in the order it     *)
(* appends them (so a step that appends nothing announces nothing), and    *)
(* that order is the order of the table.                                   *)
C14_AnnouncedOnceInTableOrder ==
    /\ [](NoDuplicates(notices))
    /\ [][/\ notices' = notices \o Appended
          /\ InTableOrder(Appended)]_vars

\* One call has unlocked beginner and streak-rookie together.
C14_Witness ==
    /\ notices = <<"beginner", "streak-rookie">>
    /\ data.total_exercises = BeginnerTotal
    /\ data.streak = StreakRookie

----------------------------------------------------------------------------
(* C15: no two registry entries have the same key, and wrong_count counts  *)
(* the record_wrong_answer calls for the key since the key was last        *)
(* absent: a call for an absent key inserts the entry with wrong_count 1,  *)
(* a call for a present key adds 1 to its wrong_count, either way          *)
(* last_user_answer is the answer passed, and no other step inserts an     *)
(* entry or changes the wrong_count of one that stays.                     *)
C15_OneEntryPerKey ==
    /\ [](\A i, j \in 1..Len(data.wrong_answers) :
              data.wrong_answers[i].key = data.wrong_answers[j].key => i = j)
    /\ [][\A n \in 1..Len(AllExercises) :
              LET ex == AllExercises[n]
                  key == ExKey(ex)
                  before == data.wrong_answers
                  after == data'.wrong_answers
                  missed == \E user_answer \in UserAnswers :
                                CallRecordWrongAnswer(ex, user_answer)
              IN  /\ \A user_answer \in UserAnswers :
                         /\ now' # now
                         /\ data'.total_exercises = data.total_exercises
                         /\ CallRecordWrongAnswer(ex, user_answer)
                         => /\ HasKey(after, key)
                            /\ EntryOf(after, key).wrong_count =
                                   IF HasKey(before, key)
                                   THEN EntryOf(before, key).wrong_count + 1
                                   ELSE 1
                            /\ EntryOf(after, key).last_user_answer = user_answer
                  /\ HasKey(after, key) /\ ~missed
                         => /\ HasKey(before, key)
                            /\ EntryOf(after, key).wrong_count
                                   = EntryOf(before, key).wrong_count]_vars

\* Four record_wrong_answer calls have been made and the one entry there is
\* has wrong_count 2: the count started again after a removal.
C15_Witness ==
    /\ Len(data.wrong_answers) = 1
    /\ data.wrong_answers[1].wrong_count = 2
    /\ data.wrong_answers[1].last_wrong = isoformat(MaxClock)
    /\ data.wrong_answers[1].last_user_answer = <<"c", "d">>
    /\ data.total_exercises = 0

----------------------------------------------------------------------------
(* Vocabulary of the registry listing.                                     *)

\* `listed` holds every entry of `wrong` exactly once and nothing else.
ListsExactly(listed, wrong) ==
    /\ Len(listed) = Len(wrong)
    /\ \A i \in 1..Len(wrong) :
           Cardinality({j \in 1..Len(listed) : listed[j] = wrong[i]}) = 1
    /\ \A j \in 1..Len(listed) : Contains(wrong, listed[j])

NonIncreasing(listed) ==
    \A i \in 1..Len(listed) - 1 : listed[i].wrong_count >= listed[i + 1].wrong_count

----------------------------------------------------------------------------
(* C16: whatever the registry holds, get_wrong_exercises returns each of   *)
(* its entries exactly once and nothing else, with wrong_count never       *)
(* increasing along the list; and the two callers of it, the notebook      *)
(* page and the replay, leave the registry as it was, the replay running   *)
(* over exactly that list.                                                 *)
C16_ListingSortedAndComplete ==
    /\ [](/\ ListsExactly(get_wrong_exercises(data), data.wrong_answers)
          /\ NonIncreasing(get_wrong_exercises(data)))
    /\ [][ShowWrongNotebook \/ PracticeWrongAnswers
              => /\ data'.wrong_answers = data.wrong_answers
                 /\ pc' = "wrong" =>
                        /\ ListsExactly(exercises', data.wrong_answers)
                        /\ NonIncreasing(exercises')]_vars

\* A replay has started over a list that is not in registry order: the
\* entry missed twice was inserted second and is presented first.
C16_Witness ==
    /\ pc = "wrong"
    /\ outcome = "none"
    /\ Len(exercises) = 2
    /\ exercises[1] = data.wrong_answers[2]
    /\ exercises[1].wrong_count = 2
    /\ exercises[2].wrong_count = 1

----------------------------------------------------------------------------
(* Vocabulary of the answer-loop properties: what a line says, by the      *)
(* text of the line alone (tables).                                        *)

SaysHintOrNothing ==
    [line \in Lines |-> Stripped[line] = <<>> \/ IsHint(Stripped[line])]

SaysQuit == [line \in Lines |-> IsQuit(Stripped[line])]

SaysSubmission == [line \in Lines |-> IsSubmission(Stripped[line])]

\* The run is at an answer prompt or at its report.
InRun == InSession \/ pc = "report"

----------------------------------------------------------------------------
(* C17: in each of the three modes, reading a line that says hint, or is   *)
(* empty or only whitespace, changes neither the progress state nor the    *)
(* file nor the session counters, and the same exercise of the same run    *)
(* is still awaiting input.                                                *)
C17_HintAndEmptyChangeNothing ==
    [][\A line \in Lines :
          /\ InSession
          /\ SaysHintOrNothing[line]
          /\ user_input' = Stripped[line]
          /\ ReadLine(line)
          => /\ data' = data
             /\ disk' = disk
             /\ notices' = notices
             /\ ghost' = ghost
             /\ run_ghost' = run_ghost
             /\ session_total' = session_total
             /\ session_correct' = session_correct
             /\ removed_count' = removed_count
             /\ exercises' = exercises
             /\ question_num' = question_num
             /\ pc' = pc
             /\ report' = report]_vars

\* In a replay, after one entry was answered correctly, the second
\* exercise has just read an empty line.
C17_Witness ==
    /\ pc = "wrong"
    /\ outcome = "empty"
    /\ question_num = 2
    /\ removed_count = 1

----------------------------------------------------------------------------
(* C18: in each of the three modes, reading a line that says quit changes  *)
(* neither the progress state nor the file, makes no store call and ends   *)
(* the loop on the exercise it was at; and from the report that follows,   *)
(* the run presents no exercise and makes no store call any more.          *)
C18_QuitEndsRun ==
    /\ [][\A line \in Lines :
              /\ InSession
              /\ SaysQuit[line]
              /\ user_input' = Stripped[line]
              /\ ReadLine(line)
              => /\ data' = data
                 /\ disk' = disk
                 /\ ghost' = ghost
                 /\ run_ghost' = run_ghost
                 /\ exercises' = exercises
                 /\ question_num' = question_num
                 /\ pc' = "report"]_vars
    /\ [][pc = "report"
              => /\ pc' \in {"menu", "crashed"}
                 /\ exercises' = <<>>
                 /\ data' = data
                 /\ disk' = disk
                 /\ ghost' = ghost]_vars

\* A replay of two entries was quit at its first exercise.
C18_Witness ==
    /\ pc = "report"
    /\ outcome = "quit"
    /\ report.mode = "wrong"
    /\ question_num = 1
    /\ Len(exercises) = 2

----------------------------------------------------------------------------
(* C19: in each of the three modes, reading a submission makes exactly     *)
(* one record_attempt call (total_exercises grows by 1) and moves the run  *)
(* to its next exercise, or to its report after the last one; so the       *)
(* record_attempt calls of a run are never more than the exercises it has  *)
(* moved past, nor than the exercises of its list.                         *)
C19_OneAttemptPerSubmission ==
    /\ [](InSession => run_ghost.calls < question_num)
    /\ [](InRun => run_ghost.calls <= Len(exercises))
    /\ [][\A line \in Lines :
              /\ InSession
              /\ SaysSubmission[line]
              /\ user_input' = Stripped[line]
              /\ ReadLine(line)
              => /\ data'.total_exercises = data.total_exercises + 1
                 /\ ghost'.calls = ghost.calls + 1
                 /\ run_ghost'.calls = run_ghost.calls + 1
                 /\ exercises' = exercises
                 /\ IF question_num < Len(exercises)
                    THEN question_num' = question_num + 1 /\ pc' = pc
                    ELSE pc' = "report"]_vars

\* A random run of two exercises has ended with both answered, the first
\* wrongly and the second correctly.
C19_Witness ==
    /\ pc = "report"
    /\ report.mode = "random"
    /\ Len(exercises) = 2
    /\ run_ghost = [calls |-> 2, ok |-> 1]
    /\ outcome = "correct"

----------------------------------------------------------------------------
(* C20: when a run has ended with its report, in any of the three modes,   *)
(* the attempts the report gives are the record_attempt calls the run      *)
(* made, and the correct count it gives is the number of those made with   *)
(* correct = True.                                                         *)
C20_ReportCountsCalls ==
    pc = "report" =>
        /\ report.attempts = run_ghost.calls
        /\ report.correct = run_ghost.ok

----------------------------------------------------------------------------
(* C21: in a replay, every step adds to removed_count exactly the number   *)
(* of entries it deletes from the registry; and in the report of a replay, *)
(* whether it finished or was quit, `removed` is the number of entries     *)
(* deleted since the run started and `remaining` is the number of entries  *)
(* in the registry.                                                        *)
C21_ReplayReportMatchesRegistry ==
    /\ [](pc = "report" /\ report.mode = "wrong"
              => /\ report.removed = removed_count
                 /\ report.removed = Len(exercises) - Len(data.wrong_answers)
                 /\ report.remaining = Len(data.wrong_answers))
    /\ [][pc = "wrong" /\ pc' \in {"wrong", "report"}
              => removed_count' - removed_count
                     = Len(data.wrong_answers) - Len(data'.wrong_answers)]_vars

\* A replay of two entries was quit after the first was answered correctly.
C21_Witness ==
    /\ pc = "report"
    /\ report.mode = "wrong"
    /\ outcome = "quit"
    /\ report.removed = 1
    /\ report.remaining = 1

----------------------------------------------------------------------------
(* C22: end of input at an answer prompt ends the run as quit does: the    *)
(* process does not crash, nothing is recorded, and the run's session-end  *)
(* report is printed with the figures of the run so far.                   *)
C22_EndOfInputReports ==
    [][InSession /\ EndOfInput
           => /\ data' = data
              /\ disk' = disk
              /\ ghost' = ghost
              /\ pc' = "report"
              /\ report' = SessionReport(pc, session_total, session_correct,
                                         removed_count, question_num,
                                         Len(exercises))]_vars

----------------------------------------------------------------------------
(* C23: a replay starts at the first element of the list that              *)
(* get_wrong_exercises gives for the registry of that moment (all its      *)
(* entries, wrong_count never increasing); no step of the replay changes   *)
(* the list, and each step stays on the exercise or moves to the next, so  *)
(* no entry is presented twice and none is added; a replay that reaches    *)
(* its report without quit has presented the whole list.                   *)
C23_ReplayFollowsStartOrder ==
    /\ [][PracticeWrongAnswers /\ pc' = "wrong"
              => /\ exercises' = get_wrong_exercises(data)
                 /\ ListsExactly(exercises', data.wrong_answers)
                 /\ NonIncreasing(exercises')
                 /\ question_num' = 1]_vars
    /\ [][pc = "wrong" /\ pc' \in {"wrong", "report"}
              => /\ exercises' = exercises
                 /\ question_num' \in {question_num, question_num + 1}]_vars
    /\ [](pc = "wrong"
              => /\ question_num \in 1..Len(exercises)
                 /\ \A i, j \in 1..Len(exercises) :
                        exercises[i].key = exercises[j].key => i = j)
    /\ [](pc = "report" /\ report.mode = "wrong" /\ outcome # "quit"
              => question_num = Len(exercises))

\* A replay of two entries has ended with the second one missed again:
\* the registry would now list that entry first, the replay did not.
C23_Witness ==
    /\ pc = "report"
    /\ report.mode = "wrong"
    /\ outcome = "wrong"
    /\ Len(exercises) = 2
    /\ get_wrong_exercises(data)[1].key = exercises[2].key

----------------------------------------------------------------------------
(* C24: constructing the store when the file is missing, and also when it  *)
(* exists but cannot be read or parsed, gives the zeroed state (counters   *)
(* 0, no tallies, no achievements, empty registry, last_practice None),    *)
(* and the process goes on as before: no error comes out of the load.      *)
C24_LoadFailsSoft ==
    [][Reload /\ ~(disk.exists /\ disk.valid)
           => /\ data'.total_exercises = 0
              /\ data'.correct_answers = 0
              /\ data'.streak = 0
              /\ data'.best_streak = 0
              /\ DOMAIN data'.categories_completed = {}
              /\ DOMAIN data'.commands_practiced = {}
              /\ data'.last_practice = None
              /\ data'.achievements = <<>>
              /\ data'.wrong_answers = <<>>
              /\ pc' = pc]_vars

\* The store was loaded from a damaged file that had attempts in it.
C24_Witness ==
    /\ disk.exists
    /\ ~disk.valid
    /\ disk.content.total_exercises > 0
    /\ data = DefaultData
    /\ ghost = NoHistory

----------------------------------------------------------------------------
(* C25: remove_wrong_answer(key) deletes the entry of key when there is    *)
(* one and changes nothing when there is none, and when it returns the     *)
(* file holds the registry as it is in memory -- here even for calls made  *)
(* when the file held exactly the in-memory state.                         *)
C25_RemovalPersisted ==
    [][\A n \in 1..Len(AllExercises) :
           LET key == ExKey(AllExercises[n])
           IN  Persisted /\ CallRemoveWrongAnswer(key)
               => /\ ~HasKey(data'.wrong_answers, key)
                  /\ Len(data'.wrong_answers) =
                         Len(data.wrong_answers)
                             - (IF HasKey(data.wrong_answers, key) THEN 1 ELSE 0)
                  /\ disk'.exists
                  /\ disk'.valid
                  /\ disk'.content.wrong_answers = data'.wrong_answers]_vars

----------------------------------------------------------------------------
(* Vocabulary of the matcher properties, character by character.           *)

\* s without its leading and trailing whitespace and with every run of
\* whitespace between two other characters replaced by one space.
RECURSIVE SqueezeFrom(_, _, _)
SqueezeFrom(s, done, gap) ==
    IF s = <<>> THEN done
    ELSE IF Head(s) \in Whitespace
         THEN SqueezeFrom(Tail(s), done, done # <<>>)
         ELSE SqueezeFrom(Tail(s),
                          done \o (IF gap THEN <<" ">> ELSE <<>>) \o <<Head(s)>>,
                          FALSE)

Squeeze(s) == SqueezeFrom(s, <<>>, FALSE)

\* s is the lower-case word `word` written in any letter case.
AnyCase(s, word) ==
    /\ Len(s) = Len(word)
    /\ \A i \in 1..Len(word) :
           \E k \in 1..Len(LowerCase) :
               LowerCase[k] = word[i] /\ s[i] \in {LowerCase[k], UpperCase[k]}

----------------------------------------------------------------------------
(* C26 as claimed: check_answer says correct exactly when the submission,  *)
(* trimmed and with its whitespace runs collapsed, is equal to one of the  *)
(* accepted answers as stored.                                             *)
C26_MatchesStoredAnswer ==
    [][Judge => ((outcome' = "correct") <=>
                    \E i \in 1..Len(CurrentEx.answers) :
                        CurrentEx.answers[i] = Squeeze(user_input))]_vars

(* C26 as amended: check_answer says correct exactly when the submission,  *)
(* trimmed and with its whitespace runs collapsed, is equal -- case and    *)
(* punctuation included -- to one of the accepted answers trimmed and      *)
(* collapsed the same way, and says wrong otherwise; it always gives one   *)
(* of the two and changes no state.                                        *)
C26_MatchesNormalizedAnswer ==
    [][Judge => /\ (outcome' = "correct") <=>
                       \E i \in 1..Len(CurrentEx.answers) :
                           Squeeze(CurrentEx.answers[i]) = Squeeze(user_input)
                /\ outcome' \in {"correct", "wrong"}
                /\ data' = data
                /\ disk' = disk
                /\ exercises' = exercises
                /\ user_input' = user_input]_vars

\* A submission was judged correct that equals no accepted answer as
\* stored: the stored answer has a doubled space.
C26_Witness ==
    /\ outcome = "correct"
    /\ user_input = <<" ","l","s","\t","-","a">>
    /\ CurrentEx.answers = << <<"l","s"," "," ","-","a">> >>

----------------------------------------------------------------------------
(* C27: normalize_answer gives the string trimmed and with every internal  *)
(* whitespace run collapsed to one space, so strings that differ only in   *)
(* leading, trailing or repeated internal whitespace get the same result;  *)
(* and normalizing the result again gives the result.                      *)
C27_NormalizeIdempotent ==
    [][Normalize => /\ user_input' = Squeeze(user_input)
                    /\ normalize_answer(user_input') = user_input']_vars

\* A line was normalized to two words with one space between them.
C27_Witness ==
    /\ outcome = "normalized"
    /\ user_input = <<"l","s"," ","-","A">>

-----------------------------------------------------------------------------
\* The int that the bits spell.
RECURSIVE FromBits(_)
FromBits(bits) ==
    IF bits = <<>> THEN 0
    ELSE 2 * FromBits(SubSeq(bits, 1, Len(bits) - 1)) + bits[Len(bits)]

\* f * k = n, exactly, for a float f >= 0 and ints k > 0 and n >= 0.
TimesIsExactly(f, k, n) ==
    IF f.e <= 0
    THEN MulSmall(f.m, k) = StripZeros(ToBits(n) \o Zeros(0 - f.e))
    ELSE MulSmall(f.m \o Zeros(f.e), k) = ToBits(n)

\* f <= n for a float f >= 0 below 2^31 and an int n >= 0.
AtMost(f, n) ==
    \/ f.m = <<>>
    \/ /\ f.e < 0
       /\ Len(f.m) + f.e <= 0
       /\ n >= 1
    \/ /\ f.e < 0
       /\ Len(f.m) + f.e > 0
       /\ LET whole == FromBits(SubSeq(f.m, 1, Len(f.m) + f.e))
              rest == SubSeq(f.m, Len(f.m) + f.e + 1, Len(f.m))
          IN  \/ whole < n
              \/ whole = n /\ \A i \in 1..Len(rest) : rest[i] = 0
    \/ /\ f.e >= 0
       /\ FromBits(f.m \o Zeros(f.e)) <= n

(* C28: get_stats reports accuracy 0 when total_exercises is 0 and         *)
(* otherwise the value a with a * total_exercises = 100 * correct_answers, *)
(* exactly, so that 0 <= a <= 100 (a float is never negative here).        *)
C28_AccuracyIsTheExactQuotient ==
    LET stats == get_stats(data)
    IN  /\ data.total_exercises = 0 => stats.accuracy = ZeroFloat
        /\ data.total_exercises > 0
               => TimesIsExactly(stats.accuracy, data.total_exercises,
                                 100 * data.correct_answers)
        /\ AtMost(stats.accuracy, 100)

-----------------------------------------------------------------------------
(* C29: every line read at the answer prompt goes exactly one way. After   *)
(* trimming, quit, skip or hint in any letter case is that control word    *)
(* and is not judged, even when the word is an accepted answer; a blank    *)
(* line is empty; every other line is a submission, judged correct or      *)
(* wrong.                                                                  *)
C29_EveryLineGoesOneWay ==
    [][Handle =>
          LET t == Squeeze(user_input)
              quit == AnyCase(t, <<"q","u","i","t">>)
              skip == AnyCase(t, <<"s","k","i","p">>)
              hint == AnyCase(t, <<"h","i","n","t">>)
          IN  /\ outcome' \in {"quit", "skip", "hint", "empty", "correct", "wrong"}
              /\ (outcome' = "quit") <=> quit
              /\ (outcome' = "skip") <=> skip
              /\ (outcome' = "hint") <=> hint
              /\ (outcome' = "empty") <=> (t = <<>>)
              /\ (outcome' \in {"correct", "wrong"})
                     <=> ~(quit \/ skip \/ hint \/ t = <<>>)]_vars

\* SkIp was typed for an exercise that accepts skip as an answer, and the
\* line was taken as the control word.
C29_Witness ==
    /\ outcome = "skip"
    /\ user_input = <<"S","k","I","p">>
    /\ \E i \in 1..Len(CurrentEx.answers) : CurrentEx.answers[i] = <<"s","k","i","p">>

-----------------------------------------------------------------------------
(* C30: the file written by a record_attempt call holds every achievement  *)
(* the call unlocked (those it announced), and when the call returns the   *)
(* file holds exactly the in-memory state.                                 *)
C30_SavedAfterAchievementCheck ==
    [][NextDrill =>
          /\ disk'.exists /\ disk'.valid
          /\ disk'.content = data'
          /\ \A i \in (Len(notices) + 1)..Len(notices') :
                 Contains(disk'.content.achievements, notices'[i])]_vars

\* The tenth attempt has just unlocked beginner, and the file holds it.
C30_Witness ==
    /\ data.total_exercises = BeginnerTotal
    /\ notices # <<>>
    /\ notices[Len(notices)] = "beginner"
    /\ Contains(disk.content.achievements, "beginner")

-----------------------------------------------------------------------------
\* The step changes one tally dict as an attempt on key k does: the tally
\* of k (zero when there was none) gets one more total, and one more
\* correct when the attempt was correct; every other tally stays.
TalliedOnly(before, after, k, correct) ==
    /\ DOMAIN after = DOMAIN before \cup {k}
    /\ after[k].total = TallyOf(before, k).total + 1
    /\ after[k].correct = TallyOf(before, k).correct + (IF correct THEN 1 ELSE 0)
    /\ \A x \in DOMAIN before : x # k => after[x] = before[x]

(* C31: record_attempt(category, command, correct) adds 1 to the total of  *)
(* that category's tally and of that command's tally, creating each zeroed *)
(* when absent, adds 1 to their correct only when correct is true, and     *)
(* leaves every other category and command tally as it was.                *)
C31_OnlyOwnTalliesCounted ==
    [][\A p \in Practised : \A correct \in BOOLEAN :
           CallRecordAttempt(p[1], p[2], correct)
               => /\ TalliedOnly(data.categories_completed,
                                 data'.categories_completed, p[1], correct)
                  /\ TalliedOnly(data.commands_practiced,
                                 data'.commands_practiced, p[2], correct)]_vars

\* Two categories and two commands have tallies, one of them counted twice
\* with one correct attempt.
C31_Witness ==
    /\ Cardinality(DOMAIN data.categories_completed) = 2
    /\ Cardinality(DOMAIN data.commands_practiced) = 2
    /\ \E k \in DOMAIN data.categories_completed :
           data.categories_completed[k] = [total |-> 2, correct |-> 1]

-----------------------------------------------------------------------------
\* How many times x occurs in a list.
Occurrences(list, x) == Cardinality({i \in 1..Len(list) : list[i] = x})

\* Every element of b occurs in a as often as in b, and a has no more.
IsPermutation(a, b) ==
    /\ Len(a) = Len(b)
    /\ \A i \in 1..Len(b) : Occurrences(a, b[i]) = Occurrences(b, b[i])

\* The exercises presented so far in the run, in the order presented.
Presented == SubSeq(exercises, 1, question_num)

\* A category run, also once its report is printed.
InCategoryRun ==
    \/ pc = "category"
    \/ pc = "report" /\ report.mode = "category"

(* C32: the list of a category run is a permutation of the exercises of    *)
(* one category; the exercises presented are its first question_num        *)
(* entries, one more with each exercise left, so none is presented twice;  *)
(* and a run that ends without quit has presented the whole list.          *)
C32_CategoryRunIsAPermutation ==
    /\ [](InCategoryRun =>
            /\ \E category_key \in CategoryKeys :
                   IsPermutation(exercises, CategoryExercises(category_key))
            /\ question_num \in 1..Len(exercises)
            /\ \A i, j \in 1..question_num :
                   i # j => Presented[i] # Presented[j]
            /\ pc = "report" /\ outcome # "quit"
                   => question_num = Len(exercises))
    /\ [][pc = "category" /\ pc' \in {"category", "report"}
              => /\ exercises' = exercises
                 /\ question_num' \in {question_num, question_num + 1}]_vars

\* A category run over two exercises, presented in the other order than
\* the corpus lists them, was practised to its end.
C32_Witness ==
    /\ pc = "report"
    /\ report.mode = "category"
    /\ outcome # "quit"
    /\ Len(exercises) = 2
    /\ question_num = 2
    /\ exercises[1] = CategoryExercises(exercises[1].category)[2]

-----------------------------------------------------------------------------
Min(a, b) == IF a < b THEN a ELSE b

\* The entries of a list are pairwise distinct exercises of the corpus.
DistinctCorpusExercises(list) ==
    /\ \A i, j \in 1..Len(list) : i # j => list[i] # list[j]
    /\ \A i \in 1..Len(list) :
           \E k \in 1..Len(AllExercises) : list[i] = AllExercises[k]

\* A random run, also once its report is printed.
InRandomRun ==
    \/ pc = "random"
    \/ pc = "report" /\ report.mode = "random"

(* C33: random_practice(N) over the M exercises of the corpus starts a run *)
(* over min(N, M) pairwise distinct corpus exercises, which stays the      *)
(* run's list; a run that ends without quit has presented all of them; and *)
(* every attempt the run records is counted in the tallies of the category *)
(* and the command of the exercise presented, and in no other tally.       *)
C33_RandomRunSamplesTheCorpus ==
    /\ [][pc = "menu" /\ pc' = "random"
              => /\ DistinctCorpusExercises(exercises')
                 /\ \A count \in RandomCounts :
                        \/ Len(exercises') = Min(count, Len(AllExercises))
                        \/ ~RandomPractice(count)]_vars
    /\ [](InRandomRun =>
            /\ DistinctCorpusExercises(exercises)
            /\ Len(exercises) \in {Min(count, Len(AllExercises)) : count \in RandomCounts}
            /\ question_num \in 1..Len(exercises)
            /\ pc = "report" /\ outcome # "quit"
                   => question_num = Len(exercises))
    /\ [][pc = "random" /\ pc' \in {"random", "report"}
              => /\ exercises' = exercises
                 /\ question_num' \in {question_num, question_num + 1}
                 /\ run_ghost'.calls # run_ghost.calls
                        => /\ TalliedOnly(data.categories_completed,
                                          data'.categories_completed,
                                          CurrentEx.category, outcome' = "correct")
                           /\ TalliedOnly(data.commands_practiced,
                                          data'.commands_practiced,
                                          CurrentEx.command, outcome' = "correct")]_vars

\* A random run of two of the three exercises, one from each category, was
\* practised to its end with one answer right.
C33_Witness ==
    /\ pc = "report"
    /\ report.mode = "random"
    /\ outcome # "quit"
    /\ Len(exercises) = SmallCount
    /\ question_num = SmallCount
    /\ exercises[1].category # exercises[2].category
    /\ run_ghost = [calls |-> 2, ok |-> 1]
    /\ Cardinality(DOMAIN data.categories_completed) = 2

-----------------------------------------------------------------------------
(* C34: at the confirmation prompt an answer that is y (in either letter   *)
(* case, trimmed) empties the registry, writes the result to the file and  *)
(* leaves the counters, the tallies, last_practice and the achievements as *)
(* they were; any other answer leaves memory and file unchanged.  No step  *)
(* taken elsewhere drops more than one registry entry, unless the program  *)
(* is started again and loads the file.                                    *)
C34_ClearOnlyWhenConfirmed ==
    /\ [][pc = "confirm"
              => \A confirm \in Confirms :
                     ConfirmClear(confirm)
                         => IF AnyCase(Squeeze(confirm), <<"y">>)
                            THEN /\ data' = [data EXCEPT !.wrong_answers = <<>>]
                                 /\ disk'.exists /\ disk'.valid
                                 /\ disk'.content = data'
                            ELSE data' = data /\ disk' = disk]_vars
    /\ [][pc # "confirm" /\ Running
              => Len(data'.wrong_answers) >= Len(data.wrong_answers) - 1]_vars

\* The page shown after the registry was cleared: two misses are counted,
\* no entry is left, and the file says the same.
C34_Witness ==
    /\ pc = "page"
    /\ data.total_exercises = 2
    /\ data.correct_answers = 0
    /\ data.wrong_answers = <<>>
    /\ disk.exists /\ disk.valid
    /\ disk.content = data

-----------------------------------------------------------------------------
(* C35: when the write fails while a wrong or skipped outcome is being     *)
(* recorded, memory holds the whole result of the outcome -- the attempt   *)
(* counted (total one more, streak 0) and the registry entry of the        *)
(* exercise created or counted once more -- and the file is as it was.     *)
C35_FailedWriteLeavesMemoryComplete ==
    [][\A line \in Lines : \A truncated \in BOOLEAN :
           /\ InSession
           /\ Branch[line] = "skip" \/ ~Accepted(line, CurrentEx.answers)
           /\ WriteFails(line, truncated)
           => LET key == ExKey(CurrentEx)
                  before == IF HasKey(data.wrong_answers, key)
                            THEN EntryOf(data.wrong_answers, key).wrong_count
                            ELSE 0
              IN  /\ data'.total_exercises = data.total_exercises + 1
                  /\ data'.streak = 0
                  /\ HasKey(data'.wrong_answers, key)
                  /\ EntryOf(data'.wrong_answers, key).wrong_count = before + 1
                  /\ disk' = disk]_vars

-----------------------------------------------------------------------------
(* C36: in a practice run a skip or a submission presents the next         *)
(* exercise (question_num one more) or, on the last exercise, ends the run *)
(* with its report; quit ends the run with its report and end of input     *)
(* ends it without; hint and the empty line leave the exercise presented;  *)
(* so question_num never goes down or comes back.  With a user who does    *)
(* not answer hint or nothing for ever, every run ends.                    *)
C36_EveryRunEnds ==
    /\ [][InSession =>
              /\ pc' \in {pc, "report", "menu"}
              /\ pc' = pc => /\ exercises' = exercises
                             /\ question_num' \in {question_num, question_num + 1}
                             /\ question_num' <= Len(exercises)
              /\ \A line \in Lines :
                     user_input' = Stripped[line] /\ ReadLine(line)
                         => CASE Branch[line] \in {"skip", "submission"} ->
                                     IF question_num < Len(exercises)
                                     THEN /\ pc' = pc
                                          /\ question_num' = question_num + 1
                                     ELSE pc' = "report"
                              [] Branch[line] = "quit" -> pc' = "report"
                              [] OTHER -> /\ pc' = pc
                                          /\ question_num' = question_num
              /\ EndOfInput => pc' = "menu"]_vars
    /\ (InSession ~> ~InSession)

\* A replay of two entries was skipped through to its report.
C36_Witness ==
    /\ pc = "report"
    /\ report.mode = "wrong"
    /\ outcome = "skip"
    /\ question_num = 2
    /\ Len(exercises) = 2

-----------------------------------------------------------------------------
\* What the tallies of the keys in `keys` add up to, field by field.
RECURSIVE SumOver(_, _)
SumOver(tallies, keys) ==
    IF keys = {} THEN [total |-> 0, correct |-> 0]
    ELSE LET k == CHOOSE x \in keys : TRUE
             rest == SumOver(tallies, keys \ {k})
         IN  [total |-> tallies[k].total + rest.total,
              correct |-> tallies[k].correct + rest.correct]

SumOfTallies(tallies) == SumOver(tallies, DOMAIN tallies)

(* C37: from the default state on, the category tallies and the command    *)
(* tallies each add up to the global counters -- their totals to           *)
(* total_exercises, their correct fields to correct_answers -- and every   *)
(* tally has correct <= total.                                             *)
C37_TalliesAddUp ==
    LET global == [total |-> data.total_exercises,
                   correct |-> data.correct_answers]
    IN  /\ SumOfTallies(data.categories_completed) = global
        /\ SumOfTallies(data.commands_practiced) = global
        /\ \A k \in DOMAIN data.categories_completed :
               data.categories_completed[k].correct
                   <= data.categories_completed[k].total
        /\ \A k \in DOMAIN data.commands_practiced :
               data.commands_practiced[k].correct
                   <= data.commands_practiced[k].total

\* Four attempts, three of them correct, spread over both categories.
C37_Witness ==
    /\ data.total_exercises = 4
    /\ data.correct_answers = 3
    /\ Cardinality(DOMAIN data.categories_completed) = 2
    /\ \E k \in DOMAIN data.commands_practiced :
           data.commands_practiced[k] = [total |-> 3, correct |-> 2]

-----------------------------------------------------------------------------
\* An entry has been counted at least once, and its key is its own
\* category, command and question joined by '::'.
WellFormed(entry) ==
    /\ entry.wrong_count >= 1
    /\ entry.key = join(<<":", ":">>,
                        <<entry.category, entry.command, entry.question>>)

(* C38: in every reachable state every registry entry has wrong_count >= 1 *)
(* and a key equal to its own category, command and question joined by     *)
(* '::'; and a miss in a replay counts the entry replayed once more and    *)
(* adds no entry.                                                          *)
C38_EntriesWellFormed ==
    /\ [](\A i \in 1..Len(data.wrong_answers) : WellFormed(data.wrong_answers[i]))
    /\ [][pc = "wrong" /\ outcome' = "wrong" /\ run_ghost' # run_ghost
              => /\ Len(data'.wrong_answers) = Len(data.wrong_answers)
                 /\ \A i \in 1..Len(data.wrong_answers) :
                        /\ data'.wrong_answers[i].key = data.wrong_answers[i].key
                        /\ data'.wrong_answers[i].wrong_count =
                               data.wrong_answers[i].wrong_count
                                   + (IF data.wrong_answers[i].key = CurrentEx.key
                                      THEN 1 ELSE 0)
                 /\ \E i \in 1..Len(data.wrong_answers) :
                        data.wrong_answers[i].key = CurrentEx.key]_vars

\* A replay of one entry was answered wrong again: the entry is counted
\* twice and is still the only one.
C38_Witness ==
    /\ pc = "report"
    /\ report.mode = "wrong"
    /\ outcome = "wrong"
    /\ Len(data.wrong_answers) = 1
    /\ data.wrong_answers[1].wrong_count = 2
    /\ data.wrong_answers[1].key = exercises[1].key

-----------------------------------------------------------------------------
\* Where the registry holds the entry of a key: entries come in the order
\* in which their keys were inserted.
Position(d, key) == IndexOf(d.wrong_answers, key)

(* C39: the registry keeps its entries in the order in which their keys    *)
(* were inserted -- a step leaves the entries that stay in the order they  *)
(* had (counting an existing entry once more does not move it) and puts a  *)
(* new key after all others -- and get_wrong_exercises lists entries of    *)
(* equal wrong_count in that order.                                        *)
C39_EqualCountsInInsertionOrder ==
    /\ [](LET listed == get_wrong_exercises(data)
          IN  \A i, j \in 1..Len(listed) :
                  i < j /\ listed[i].wrong_count = listed[j].wrong_count
                      => Position(data, listed[i].key) < Position(data, listed[j].key))
    /\ [][\A i, j \in 1..Len(data'.wrong_answers) :
              LET a == data'.wrong_answers[i].key
                  b == data'.wrong_answers[j].key
              IN  i < j /\ HasKey(data.wrong_answers, b)
                      => /\ HasKey(data.wrong_answers, a)
                         /\ Position(data, a) < Position(data, b)]_vars

\* Three entries, the second one counted twice: it is listed first, and the
\* other two follow in the order in which they were inserted.
C39_Witness ==
    LET listed == get_wrong_exercises(data)
    IN  /\ Len(listed) = 3
        /\ listed[1].wrong_count = 2
        /\ listed[1].key = data.wrong_answers[2].key
        /\ listed[2].wrong_count = 1
        /\ listed[3].wrong_count = 1
        /\ listed[2].key = data.wrong_answers[1].key

====
